---------------------------- MODULE Spec2Model ----------------------------
(***************************************************************************)
(* Trade network engine of text-rpg (trade_routes.py) with the tick        *)
(* scheduler that drives it (timesim.py, event_manager.py, main.py).       *)
(*                                                                         *)
(* Numbers.  Python floats are modelled in fixed point:                    *)
(*   movement cost and path cost   in halves      (tile_cost may be 1.5)   *)
(*   risk                          in hundredths                           *)
(*   commodities, wealth, supplies, trade value in thousandths             *)
(* Square roots are never rounded: every comparison that involves one is   *)
(* decided exactly on integers (SgnSqrtDiff).                              *)
(*                                                                         *)
(* Optional values (Python None / missing dict key) are <<>>, a present    *)
(* value v is <<v>>.                                                       *)
(***************************************************************************)
EXTENDS Integers, Sequences, FiniteSets, TLC

VARIABLES
    dim,              \* <<W, H>>: len(world[0]), len(world)
    world,            \* world[<<x, y>>]: the TileState at column x, row y
    meta,             \* world[0][0].systems["meta"], key "trade_links" optional
    reader,           \* a reference to a graph taken by a reader of the slot
    clock,            \* WorldClock: global_tick (day), local_tick (hour)
    pc,               \* position of the program
    err,              \* the exception that ended the last call ("none" if it returned)
    steps,         \* iterations of TimeSystem.run done so far
    new_trade_links,  \* local variable of UpdateTradeNetwork / Main
    route,            \* the last FindRoute or EvaluateRouteRisk call: arguments and result
    widx,             \* world_index_store.world_index: the WorldIndex every tile points to
    subscribers,      \* TimeSystem.subscribers: the callbacks of each event type
    hist              \* history of the calls made (observation only)

vars == <<dim, world, meta, reader, clock, pc, err, steps, new_trade_links, route, widx,
          subscribers, hist>>

-----------------------------------------------------------------------------
(* Bounds of the model *)

RouteW == 5            \* grid of the route planner specification
RouteH == 4
MaxRough == 2          \* tiles whose movement cost is above 1
MaxCost == 2           \* largest movement cost drawn
ShortLen == 3          \* the small max_len passed to FindRoute beside the default
MaxPath == 2           \* longest path handed to EvaluateRouteRisk on its own
GenW == 3              \* grid of the network synthesizer specification
GenH == 2
GenRough == 1          \* rough tiles in a synthesizer world
MaxSettle == 3         \* settlements in a synthesizer world
RunHours == 168        \* hours the clock is run (main.py runs 48 of them)
EconStep == 5000       \* the fall of supplies and wealth on a lean day, in hundredths
MaxCalls == 4          \* calls made in the specification of the entry points
MaxId == 2             \* settlement ids drawn where ids may collide
MaxDebt == 11000       \* supplies are drained no further below zero, in hundredths

-----------------------------------------------------------------------------
(* Generic helpers *)

None == <<>>
Some(v) == <<v>>
IsNone(o) == o = <<>>
Val(o) == o[1]

Max(a, b) == IF a >= b THEN a ELSE b
Min(a, b) == IF a <= b THEN a ELSE b
Sgn(i) == IF i > 0 THEN 1 ELSE IF i < 0 THEN -1 ELSE 0

RECURSIVE SumSeq(_)
SumSeq(s) == IF s = <<>> THEN 0 ELSE Head(s) + SumSeq(Tail(s))

Reverse(s) == [i \in 1..Len(s) |-> s[Len(s) + 1 - i]]

SeqToSet(s) == {s[i] : i \in 1..Len(s)}

\* sign of  d + sqrt(a) - sqrt(b)  for an integer d and naturals a, b, exactly
RECURSIVE SgnSqrtDiff(_, _, _)
SgnSqrtDiff(d, a, b) ==
    IF d = 0 THEN Sgn(a - b)
    ELSE IF d < 0 THEN 0 - SgnSqrtDiff(0 - d, b, a)
    ELSE IF a >= b THEN 1
    ELSE LET k == b - a - d * d
         IN  IF k < 0 THEN 1 ELSE Sgn(4 * d * d * a - k * k)

-----------------------------------------------------------------------------
(* The tile grid *)

Tiles(d) == (0..(d[1] - 1)) \X (0..(d[2] - 1))

\* a tile nothing has been attached to (TileState.__init__ after worldgen)
PlainTile ==
    [movement_cost |-> 1, terrain |-> "plains", biome |-> "", tags |-> {},
     weather |-> None, humidity |-> None, soil |-> None, eco |-> None,
     eco_risk |-> None, economy |-> None, entity |-> None, active_events |-> << >>]

\* tile_cost, in halves: movement_cost or 1.5
tile_cost(tile) == IF tile.movement_cost = 0 THEN 3 ELSE 2 * tile.movement_cost

\* squared Euclidean distance between two positions
Dist2(p, q) == (p[1] - q[1]) * (p[1] - q[1]) + (p[2] - q[2]) * (p[2] - q[2])

\* FindRoute.neighbors: rows ascending, columns ascending inside a row
neighbors(d, t) ==
    LET xs == Max(0, t[1] - 1)..Min(d[1] - 1, t[1] + 1)
        ys == Max(0, t[2] - 1)..Min(d[2] - 1, t[2] + 1)
        nx == Cardinality(xs)
        all == [i \in 1..(nx * Cardinality(ys)) |->
                    << Max(0, t[1] - 1) + ((i - 1) % nx),
                       Max(0, t[2] - 1) + ((i - 1) \div nx) >>]
    IN  SelectSeq(all, LAMBDA p : p # t)

-----------------------------------------------------------------------------
(* FindRoute: A* with a (priority, counter, tile) heap *)

\* a heap entry is [g, d2, n, t]: priority g/2 + sqrt(d2), counter n, tile t
\* (the start entry has priority 0: g = 0, d2 = 0)
HeapLess(e, f) ==
    LET s == SgnSqrtDiff(e.g - f.g, 4 * e.d2, 4 * f.d2)
    IN  s < 0 \/ (s = 0 /\ e.n < f.n)

HeapMin(heap) == CHOOSE e \in heap : \A f \in heap : f = e \/ HeapLess(e, f)

\* the reconstruction loop: follow came from the goal while the tile is a key
\* a reconstruction that returns the tiles as it walked them, from the goal back
RECURSIVE ReconstructFromGoal(_, _, _)
ReconstructFromGoal(came, current, path) ==
    IF current \in DOMAIN came
    THEN ReconstructFromGoal(came, came[current], Append(path, came[current]))
    ELSE path

RECURSIVE Reconstruct(_, _, _)
Reconstruct(came, current, path) ==
    IF current \in DOMAIN came
    THEN Reconstruct(came, came[current], Append(path, came[current]))
    ELSE Reverse(path)

\* the for-loop over the neighbours of current; s = [heap, came, gscore, counter]
RECURSIVE Relax(_, _, _, _, _)
Relax(w, goal, current, nbs, s) ==
    IF nbs = <<>> THEN s
    ELSE LET nb == Head(nbs)
             new_g == s.gscore[current] + tile_cost(w[nb])
             better == nb \notin DOMAIN s.gscore \/ new_g < s.gscore[nb]
             s2 == IF better
                   THEN [heap |-> s.heap \cup {[g |-> new_g, d2 |-> Dist2(nb, goal),
                                                 n |-> s.counter, t |-> nb]},
                         came |-> [k \in DOMAIN s.came \cup {nb} |->
                                       IF k = nb THEN current ELSE s.came[k]],
                         gscore |-> [k \in DOMAIN s.gscore \cup {nb} |->
                                       IF k = nb THEN new_g ELSE s.gscore[k]],
                         counter |-> s.counter + 1]
                   ELSE s
         IN  Relax(w, goal, current, Tail(nbs), s2)

\* the while-loop; the result is the path, or None
RECURSIVE Search(_, _, _, _, _)
Search(d, w, goal, max_len, s) ==
    IF s.heap = {} \/ Cardinality(DOMAIN s.came) >= max_len THEN None
    ELSE LET e == HeapMin(s.heap)
             popped == [s EXCEPT !.heap = s.heap \ {e}]
         IN  IF e.t = goal
             THEN Reconstruct(s.came, e.t, <<e.t>>)
             ELSE Search(d, w, goal, max_len,
                         Relax(w, goal, e.t, neighbors(d, e.t), popped))

FindRoute(d, w, start, goal, max_len) ==
    Search(d, w, goal, max_len,
           [heap |-> {[g |-> 0, d2 |-> 0, n |-> 0, t |-> start]},
            came |-> << >>,
            gscore |-> [k \in {start} |-> 0],
            counter |-> 1])

DefaultMaxLen == 2000

\* total movement cost of a path: tile_cost of every tile entered after the start
TravelCost(w, path) == SumSeq([i \in 1..(Len(path) - 1) |-> tile_cost(w[path[i + 1]])])

\* cheapest travel cost from start to every tile, by relaxation to a fixpoint
Unreached == 1000000
RECURSIVE RelaxAll(_, _, _)
RelaxAll(d, w, dist) ==
    LET nd == [t \in Tiles(d) |->
                 LET via == {dist[n] + tile_cost(w[t]) : n \in SeqToSet(neighbors(d, t))}
                     best == CHOOSE c \in via \cup {dist[t]} : \A c2 \in via \cup {dist[t]} : c <= c2
                 IN  Min(best, Unreached)]
    IN  IF nd = dist THEN dist ELSE RelaxAll(d, w, nd)

ShortestCost(d, w, start, goal) ==
    RelaxAll(d, w, [t \in Tiles(d) |-> IF t = start THEN 0 ELSE Unreached])[goal]

-----------------------------------------------------------------------------
(* CollectSettlementProfiles *)

RECURSIVE SumOver(_, _)
SumOver(f, S) ==
    IF S = {} THEN 0
    ELSE LET k == CHOOSE k \in S : TRUE IN f[k] + SumOver(f, S \ {k})

\* dict.get(k, 0)
GetOr0(f, k) == IF k \in DOMAIN f THEN f[k] ELSE 0

\* the naive demand table: per-capita demand in thousandths of a unit
DemandCoef ==
    [grain |-> 20, meat |-> 15, fish |-> 10, timber |-> 5, stone |-> 3, iron |-> 2]

\* tiles that carry an economy subsystem
EconomyTiles(d, w) == {t \in Tiles(d) : w[t].economy # None}

\* the subsystems a tile can carry: the keys of tile.systems
SystemNames == {"weather", "humidity", "soil", "eco", "eco_risk", "economy"}

\* tile.systems.get(name), None when the key is absent
get_system(tile, name) ==
    CASE name = "weather" -> tile.weather
      [] name = "humidity" -> tile.humidity
      [] name = "soil" -> tile.soil
      [] name = "eco" -> tile.eco
      [] name = "eco_risk" -> tile.eco_risk
      [] name = "economy" -> tile.economy

\* WorldIndex.rebuild: the three reverse indices of the world, each a set of
\* <<key, tile position>> pairs
rebuild(w) ==
    [system_index |-> {p \in SystemNames \X DOMAIN w : get_system(w[p[2]], p[1]) # None},
     terrain_index |-> {<<w[t].terrain, t>> : t \in DOMAIN w},
     tag_index |-> UNION {{<<g, t>> : g \in w[t].tags} : t \in DOMAIN w}]

\* WorldIndex.with_system(name)
with_system(idx, name) == {p[2] : p \in {q \in idx.system_index : q[1] = name}}

\* the orders in which a set can be iterated (list(set) has no fixed order)
Orders(S) ==
    {o \in [1..Cardinality(S) -> S] : \A i, j \in 1..Cardinality(S) : i # j => o[i] # o[j]}

\* the profile with "at least 1.0" as the export test
ProfileOfAtLeast(w, t) ==
    LET econ == Val(w[t].economy)
        subs == econ.sub_commodities
        pop == econ.population
        exp == {k \in DOMAIN subs : subs[k] >= 1000}
        imp == {r \in DOMAIN DemandCoef : 2 * GetOr0(subs, r) < pop * DemandCoef[r]}
    IN  [tile |-> t,
         exports |-> [k \in exp |-> subs[k]],
         imports |-> [r \in imp |-> pop * DemandCoef[r] - GetOr0(subs, r)],
         population |-> pop,
         wealth |-> econ.wealth,
         supplies |-> econ.supplies,
         prosperity |-> econ.prosperity]

\* the profile of one economy tile (lines 65-98)
ProfileOf(w, t) ==
    LET econ == Val(w[t].economy)
        subs == econ.sub_commodities
        pop == econ.population
        exp == {k \in DOMAIN subs : subs[k] > 1000}
        imp == {r \in DOMAIN DemandCoef : 2 * GetOr0(subs, r) < pop * DemandCoef[r]}
    IN  [tile |-> t,
         exports |-> [k \in exp |-> subs[k]],
         imports |-> [r \in imp |-> pop * DemandCoef[r] - GetOr0(subs, r)],
         population |-> pop,
         wealth |-> econ.wealth,
         supplies |-> econ.supplies,
         prosperity |-> econ.prosperity]

\* profiles, as the dict the loop over the tiles in iteration order ts builds:
\* keys in order of first insertion, each key holding the value written last
RECURSIVE FirstKeys(_, _)
FirstKeys(ids, seen) ==
    IF ids = <<>> THEN <<>>
    ELSE IF Head(ids) \in seen THEN FirstKeys(Tail(ids), seen)
    ELSE <<Head(ids)>> \o FirstKeys(Tail(ids), seen \cup {Head(ids)})

CollectSettlementProfiles(w, ts) ==
    LET ids == [i \in 1..Len(ts) |-> Val(w[ts[i]].economy).id]
        last(sid) == CHOOSE i \in 1..Len(ts) :
                        ids[i] = sid /\ \A j \in 1..Len(ts) : ids[j] = sid => j <= i
    IN  [order |-> FirstKeys(ids, {}),
         of |-> [sid \in SeqToSet(ids) |-> ProfileOf(w, ts[last(sid)])]]

-----------------------------------------------------------------------------
(* ComputeTradeValue, in thousandths; wealth and supplies are in hundredths *)

ComputeTradeValue(profileA, profileB) ==
    LET expA == profileA.exports
        expB == profileB.exports
        impA == profileA.imports
        impB == profileB.imports
        valA == SumOver(expA, DOMAIN expA \cap DOMAIN impB)
        valB == SumOver(expB, DOMAIN expB \cap DOMAIN impA)
        base == valA + valB
        \* 0.5 + wealth_mod + supply_mod, times 20000
        mods == 10000 + profileA.wealth + profileB.wealth
                      + profileA.supplies + profileB.supplies
    IN  IF base <= 0 THEN 0 ELSE (base * mods) \div 20000

-----------------------------------------------------------------------------
(* EvaluateRouteRisk, in hundredths *)

\* the contribution of one tile (lines 326-389)
TileRisk(tile) ==
    LET biome == tile.biome
        w_state == IF tile.weather = None THEN "" ELSE Val(tile.weather)
        hum == IF tile.humidity = None THEN 50 ELSE Val(tile.humidity)
        fert == IF tile.soil = None THEN 50 ELSE Val(tile.soil)
        carn == IF tile.eco = None THEN 0 ELSE Val(tile.eco).carnivores
        herb == IF tile.eco = None THEN 1 ELSE Val(tile.eco).herbivores
        \* predator_ratio > 1.0, and predator_ratio * 0.6
        pred == IF carn > Max(herb, 1) THEN (60 * carn) \div Max(herb, 1) ELSE 0
        eco_r == IF tile.eco_risk = None THEN 0 ELSE Val(tile.eco_risk)
    IN    (IF biome \in {"forest", "rainforest"} THEN 50 ELSE 0)
        + (IF biome \in {"desert", "semi_arid", "scrubland", "cold_steppe"} THEN 40 ELSE 0)
        + (IF biome \in {"wetland", "mangrove"} THEN 60 ELSE 0)
        + (IF biome \in {"savanna"} THEN 20 ELSE 0)
        + (IF biome \in {"mountain", "alpine", "montane_forest"} THEN 70 ELSE 0)
        + (IF w_state = "storm" THEN 70
           ELSE IF w_state = "rain" THEN 20
           ELSE IF w_state = "drought" THEN 30 ELSE 0)
        + (IF hum < 20 THEN 30 ELSE 0)
        + (IF hum > 85 THEN 40 ELSE 0)
        + (IF fert < 25 THEN 30 ELSE IF fert > 70 THEN -20 ELSE 0)
        + pred
        + eco_r
        + (IF "forest_bloom" \in tile.tags THEN -40 ELSE 0)
        + (IF "predator_surge" \in tile.tags THEN 120 ELSE 0)
        + (IF "ecological_collapse" \in tile.tags THEN 150 ELSE 0)
        + (IF "bandit_settlement" \in tile.tags THEN 100 ELSE 0)

\* a floor applied to every tile's contribution
EvaluateRouteRiskFlooredPerTile(w, path) ==
    SumSeq([i \in 1..Len(path) |-> Max(TileRisk(w[path[i]]), 0)])

EvaluateRouteRisk(w, path) ==
    Max(SumSeq([i \in 1..Len(path) |-> TileRisk(w[path[i]])]), 0)

-----------------------------------------------------------------------------
(* FindTradePartners *)

MaxPartners == 3        \* max_partners
SearchRadius == 60      \* search_radius

RECURSIVE GCD(_, _)
GCD(a, b) == IF b = 0 THEN a ELSE GCD(b, a % b)

\* floor of the square root of n, by bisection on lo..hi
RECURSIVE IsqrtIn(_, _, _)
IsqrtIn(n, lo, hi) ==
    IF lo >= hi THEN lo
    ELSE LET mid == (lo + hi + 1) \div 2
         IN  IF mid * mid <= n THEN IsqrtIn(n, mid, hi) ELSE IsqrtIn(n, lo, mid - 1)

Isqrt(n) == IsqrtIn(n, 0, Min(n, 46340))

\* get_settlement_ai: the settlement AI entity of the tile, or None
get_settlement_ai(tile) == tile.entity

\* the component an entity holds under "relationship" is [cls, table]: a
\* MetaRelationshipComponent (table of rv/rs records, hundredths) or the
\* RelationshipComponent of relationship.py (table of integer scores)
\* MetaRelationshipComponent.get_rv, in hundredths
get_rv(rel, other_id) == IF other_id \in DOMAIN rel THEN rel[other_id].rv ELSE 0

\* hasattr(component, "get_rv"): RelationshipComponent defines get, set and
\* modify only
HasGetRv(comp) == comp.cls = "MetaRelationshipComponent"

\* PersonalityComponent.get, in hundredths
get_trait(traits, name) == IF name \in DOMAIN traits THEN traits[name] ELSE 50

\* WorldIndex.tiles_within_radius: rows ascending, columns ascending, centre included
tiles_within_radius(d, c, radius) ==
    LET x0 == Max(0, c[1] - radius)
        y0 == Max(0, c[2] - radius)
        nx == Min(d[1], c[1] + radius + 1) - x0
        ny == Min(d[2], c[2] + radius + 1) - y0
    IN  [i \in 1..(nx * ny) |-> <<x0 + ((i - 1) % nx), y0 + ((i - 1) \div nx)>>]

\* sum(min(expA.get(r, 0), impB.get(r, 0)) for r in expA)
MatchValue(exp, imp) ==
    LET m == [r \in DOMAIN exp |-> Min(exp[r], GetOr0(imp, r))]
    IN  SumOver(m, DOMAIN exp)

\* A scored candidate is [num, d2, osid]: its score is
\*   num / (CautionBase * sqrt(d2) + caution * d2)   up to a common positive factor,
\* where num = complement_value * affinity_factor.
\* denominator bounds, times 100: sqrt(d2) * 100 lies in r..r+1
DenLow(c, mdp4, ct) == mdp4 * Isqrt(c.d2 * 10000) + 4 * ct * c.d2
DenHigh(c, mdp4, ct) ==
    LET r == Isqrt(c.d2 * 10000)
    IN  mdp4 * (IF r * r = c.d2 * 10000 THEN r ELSE r + 1) + 4 * ct * c.d2

\* sign of score(c1) - score(c2); undefined (no value) if the bounds cannot tell
ScoreSgn(c1, c2, mdp4, ct) ==
    LET g == GCD(c1.num, c2.num)
        n1 == c1.num \div g
        n2 == c2.num \div g
    IN  IF c1.d2 = c2.d2 THEN Sgn(c1.num - c2.num)
        ELSE IF n1 * DenLow(c2, mdp4, ct) > n2 * DenHigh(c1, mdp4, ct) THEN 1
        ELSE IF n1 * DenHigh(c2, mdp4, ct) < n2 * DenLow(c1, mdp4, ct) THEN -1
        ELSE CHOOSE x \in {} : TRUE

\* position of tile t1 before t2 in the row-major scan of tiles_within_radius
ScannedBefore(t1, t2) == t1[2] < t2[2] \/ (t1[2] = t2[2] /\ t1[1] < t2[1])

\* (score, osid) tuples compared as scored.sort(reverse=True) does; the sort is
\* stable, so equal tuples (two tiles carrying one id) stay in scan order
ScoredBefore(c1, c2, mdp4, ct) ==
    LET sg == ScoreSgn(c1, c2, mdp4, ct)
    IN  \/ sg > 0
        \/ sg = 0 /\ c1.osid > c2.osid
        \/ sg = 0 /\ c1.osid = c2.osid /\ ScannedBefore(c1.t, c2.t)

RECURSIVE SortScored(_, _, _)
SortScored(S, mdp4, ct) ==
    IF S = {} THEN <<>>
    ELSE LET top == CHOOSE c \in S : \A c2 \in S \ {c} : ScoredBefore(c, c2, mdp4, ct)
         IN  <<top>> \o SortScored(S \ {top}, mdp4, ct)

\* the slice taken from the wrong end: scored[-max_partners:]
ShortlistFromEnd(sorted, max_partners) ==
    [i \in 1..Min(max_partners, Len(sorted)) |->
        sorted[Len(sorted) - Min(max_partners, Len(sorted)) + i].osid]

\* [pid for _, pid in scored[:max_partners]]
Shortlist(sorted, max_partners) ==
    [i \in 1..Min(max_partners, Len(sorted)) |-> sorted[i].osid]

\* the shortlist of one settlement (lines 121-196); entityA is present
PartnersOf(d, w, profiles, sid, max_partners, search_radius) ==
    LET profile == profiles.of[sid]
        tile == profile.tile
        entityA == Val(get_settlement_ai(w[tile]))
        rel_comp_A == entityA.relationship
        \* 4 * max(1.0, search_radius * 0.75)
        mdp4 == Max(4, 3 * search_radius)
        ct == get_trait(Val(entityA.personality), "anxiety_sensitivity")
        nearby == tiles_within_radius(d, tile, search_radius)
        candidates == {t \in SeqToSet(nearby) :
                          /\ w[t].economy # None
                          /\ Val(w[t].economy).id # sid
                          /\ Dist2(t, tile) # 0}
        cv(t) == LET o == profiles.of[Val(w[t].economy).id]
                 IN  MatchValue(profile.exports, o.imports)
                       + MatchValue(o.exports, profile.imports)
        \* affinity_factor, times 200
        aff(t) == LET entityB == get_settlement_ai(w[t])
                  IN  IF entityB # None /\ rel_comp_A # None
                      THEN 200 + get_rv(Val(rel_comp_A).table, Val(entityB).id)
                      ELSE 200
        scored == {[num |-> cv(t) * aff(t), d2 |-> Dist2(t, tile),
                    osid |-> Val(w[t].economy).id, t |-> t] :
                       t \in {c \in candidates : cv(c) # 0}}
    IN  Shortlist(SortScored(scored, mdp4, ct), max_partners)

\* the settlements FindTradePartners gives a shortlist (those with an AI entity)
HasEntity(w, profiles, sid) == get_settlement_ai(w[profiles.of[sid].tile]) # None

\* FindTradePartners raises AttributeError when an AI entity has no personality
\* component (entityA.get("personality") is None, line 129)
PartnersError(w, profiles) ==
    \E sid \in DOMAIN profiles.of :
        /\ HasEntity(w, profiles, sid)
        /\ Val(get_settlement_ai(w[profiles.of[sid].tile])).personality = None

\* the tiles FindTradePartners scores for a settlement: economy tiles in the
\* window with another id, off the settlement's own tile, whose complement
\* value is not 0 (lines 137-165)
ScoredTiles(d, w, profiles, sid, search_radius) ==
    LET profile == profiles.of[sid]
        cv(t) == LET o == profiles.of[Val(w[t].economy).id]
                 IN  MatchValue(profile.exports, o.imports)
                       + MatchValue(o.exports, profile.imports)
    IN  {t \in SeqToSet(tiles_within_radius(d, profile.tile, search_radius)) :
            /\ w[t].economy # None
            /\ Val(w[t].economy).id # sid
            /\ Dist2(t, profile.tile) # 0
            /\ cv(t) # 0}

\* rel_comp_A.get_rv (line 173) raises AttributeError when the settlement's
\* "relationship" component has no get_rv and a scored candidate has an entity
GetRvError(d, w, profiles, search_radius) ==
    \E sid \in DOMAIN profiles.of :
        /\ HasEntity(w, profiles, sid)
        /\ LET rel_comp_A == Val(get_settlement_ai(w[profiles.of[sid].tile])).relationship
           IN  /\ rel_comp_A # None
               /\ ~HasGetRv(Val(rel_comp_A))
               /\ \E t \in ScoredTiles(d, w, profiles, sid, search_radius) :
                      get_settlement_ai(w[t]) # None

FindTradePartners(d, w, profiles, max_partners, search_radius) ==
    [sid \in {s \in DOMAIN profiles.of : HasEntity(w, profiles, s)} |->
        PartnersOf(d, w, profiles, sid, max_partners, search_radius)]

-----------------------------------------------------------------------------
(* TagSettlements *)

DerivedTags ==
    {"prosperous", "struggling", "supplies_deficit", "trade_hub",
     "bandit_settlement", "bandit_infested_settlement"}

EasyTerrain == {"settlement", "coastal", "plains", "riverside"}

\* routes.get(sid, [])
LinksOf(routes, sid) == IF sid \in DOMAIN routes THEN routes[sid] ELSE <<>>

\* GetTilesWithinRadius without the centre
GetTilesWithinRadius(d, c, radius) ==
    {t \in SeqToSet(tiles_within_radius(d, c, radius)) : t # c}

\* the tags the first pass adds (lines 424-434)
ProsperityTags(prof, routes, sid) ==
    (IF prof.prosperity > 20000 THEN {"prosperous"}
     ELSE IF prof.prosperity < 4000 THEN {"struggling"} ELSE {})
    \cup (IF 2 * prof.supplies < 100 * prof.population THEN {"supplies_deficit"} ELSE {})
    \cup (IF Len(LinksOf(routes, sid)) >= 3 THEN {"trade_hub"} ELSE {})

\* local_risk_score of the second pass (lines 443-467)
LocalRiskScore(d, w, t, routes, sid) ==
    LET links == LinksOf(routes, sid)
        risks == [i \in 1..Len(links) |-> links[i].risk]
        entityA == get_settlement_ai(w[t])
        table == IF entityA # None /\ Val(entityA).relationship # None
                 THEN Val(Val(entityA).relationship).table ELSE << >>
        wild_count == Cardinality({n \in GetTilesWithinRadius(d, t, 3) :
                                      w[n].terrain \notin EasyTerrain})
    IN    (IF SumSeq(risks) > 200 * Max(1, Len(links)) THEN 1 ELSE 0)
        + (IF \E o \in DOMAIN table : table[o].rv < -50 /\ table[o].rs < -50 THEN 1 ELSE 0)
        + (IF wild_count > 5 THEN 1 ELSE 0)

\* the tag given on a single risk signal
BanditTagsOnOneSignal(d, w, t, routes, sid) ==
    IF Val(w[t].economy).prosperity < 5000 /\ LocalRiskScore(d, w, t, routes, sid) >= 1
    THEN {"bandit_infested_settlement"} ELSE {}

BanditTags(d, w, t, routes, sid) ==
    IF Val(w[t].economy).prosperity < 5000 /\ LocalRiskScore(d, w, t, routes, sid) >= 2
    THEN {"bandit_infested_settlement"} ELSE {}

\* the world after TagSettlements(world, profiles, routes)
TagSettlements(d, w, profiles, routes) ==
    LET sidAt(t) == CHOOSE sid \in DOMAIN profiles.of : profiles.of[sid].tile = t
        tagged == {profiles.of[sid].tile : sid \in DOMAIN profiles.of}
    IN  [t \in Tiles(d) |->
            IF t \in tagged
            THEN [w[t] EXCEPT !.tags = (@ \ DerivedTags)
                                \cup ProsperityTags(profiles.of[sidAt(t)], routes, sidAt(t))
                                \cup BanditTags(d, w, t, routes, sidAt(t))]
            ELSE w[t]]

-----------------------------------------------------------------------------
(* GenerateTradeRoutes *)

\* path_cost (line 505): tile_cost of every tile of the path, in halves
path_cost(w, path) == SumSeq([i \in 1..Len(path) |-> tile_cost(w[path[i]])])

\* the settlement pairs in the order of the double loop (lines 508-511)
PairSeq(n) ==
    LET idx == {<<i, j>> \in (1..n) \X (1..n) : i < j}
        rank(pr) == Cardinality({q \in idx : q[1] < pr[1] \/ (q[1] = pr[1] /\ q[2] < pr[2])}) + 1
    IN  [k \in 1..Cardinality(idx) |-> CHOOSE pr \in idx : rank(pr) = k]

\* the edge of one pair: (cost, sidA, sidB, path) with sidA < sidB, none if
\* FindRoute found no path (lines 511-516, 539-542)
EdgeOf(w, a, b, path) ==
    IF path = None THEN <<>>
    ELSE <<[cost |-> path_cost(w, path), sidA |-> Min(a, b), sidB |-> Max(a, b),
            path |-> path]>>

\* the candidate edges in insertion order: one per routed pair, the path
\* running from the settlement listed first
RECURSIVE CandidateEdges(_, _, _, _)
CandidateEdges(d, w, profiles, pairs) ==
    IF pairs = <<>> THEN <<>>
    ELSE LET a == profiles.order[Head(pairs)[1]]
             b == profiles.order[Head(pairs)[2]]
         IN  EdgeOf(w, a, b, FindRoute(d, w, profiles.of[a].tile, profiles.of[b].tile,
                                       DefaultMaxLen))
               \o CandidateEdges(d, w, profiles, Tail(pairs))

\* the candidate edges left in insertion order
SortByCostSkipped(edges) == edges

\* edges.sort(key=cost): stable
RECURSIVE SortByCost(_)
SortByCost(edges) ==
    IF edges = <<>> THEN <<>>
    ELSE LET e == edges[Len(edges)]
             init == SortByCost(SubSeq(edges, 1, Len(edges) - 1))
             keep == Cardinality({i \in 1..Len(init) : init[i].cost <= e.cost})
         IN  SubSeq(init, 1, keep) \o <<e>> \o SubSeq(init, keep + 1, Len(init))

\* find with path halving: the root and the parent map it leaves
RECURSIVE find(_, _)
find(parent, x) ==
    IF parent[x] = x THEN [root |-> x, parent |-> parent]
    ELSE LET p2 == [parent EXCEPT ![x] = parent[parent[x]]]
         IN  find(p2, p2[x])

\* a union that reports a merge whatever the roots are
unionAlways(parent, a, b) ==
    LET fa == find(parent, a)
        fb == find(fa.parent, b)
    IN  [merged |-> TRUE, parent |-> [fb.parent EXCEPT ![fb.root] = fa.root]]

\* union: whether the two were in distinct components, and the parent map
union(parent, a, b) ==
    LET fa == find(parent, a)
        fb == find(fa.parent, b)
    IN  IF fa.root = fb.root
        THEN [merged |-> FALSE, parent |-> fb.parent]
        ELSE [merged |-> TRUE, parent |-> [fb.parent EXCEPT ![fb.root] = fa.root]]

\* an assignment of the one-element list in place of the append
AppendToOverwrites(g, k, v) ==
    [x \in DOMAIN g \cup {k} |-> IF x = k THEN <<v>> ELSE g[x]]

\* defaultdict(list)[k].append(v)
AppendTo(g, k, v) ==
    [x \in DOMAIN g \cup {k} |-> IF x = k THEN Append(LinksOf(g, k), v) ELSE g[x]]

\* the two appends of an accepted edge (lines 549-562): one link object per
\* endpoint, both holding the edge's path
AcceptEdge(k, u, e, value, risk) ==
    [parent |-> u.parent,
     mst_links |-> AppendTo(AppendTo(k.mst_links, e.sidA,
                                     [partner |-> e.sidB, value |-> value,
                                      risk |-> risk, path |-> e.path]),
                            e.sidB,
                            [partner |-> e.sidA, value |-> value,
                             risk |-> risk, path |-> e.path]),
     accepted |-> Append(k.accepted, e)]

\* one turn of the Kruskal loop
KruskalStep(w, profiles, k, u, e) ==
    IF u.merged
    THEN AcceptEdge(k, u, e, ComputeTradeValue(profiles.of[e.sidA], profiles.of[e.sidB]),
                    EvaluateRouteRisk(w, e.path))
    ELSE [k EXCEPT !.parent = u.parent]

\* the Kruskal loop (lines 547-562); k = [parent, mst_links, accepted]
RECURSIVE Kruskal(_, _, _, _)
Kruskal(w, profiles, edges, k) ==
    IF edges = <<>> THEN k
    ELSE Kruskal(w, profiles, Tail(edges),
                 KruskalStep(w, profiles, k,
                             union(k.parent, Head(edges).sidA, Head(edges).sidB),
                             Head(edges)))

\* the link to one shortlisted partner, none if no path was found (lines 584-592)
ExtraLink(w, osid, value, path) ==
    IF path = None THEN <<>>
    ELSE <<[partner |-> osid, value |-> value,
            risk |-> EvaluateRouteRisk(w, path), path |-> path]>>

\* the links of one shortlist (lines 574-592)
RECURSIVE ExtraLinksOf(_, _, _, _, _)
ExtraLinksOf(d, w, profiles, sid, plist) ==
    IF plist = <<>> THEN <<>>
    ELSE LET osid == Head(plist)
             A == profiles.of[sid]
             B == profiles.of[osid]
         IN  (IF ComputeTradeValue(A, B) <= 0 THEN <<>>
              ELSE ExtraLink(w, osid, ComputeTradeValue(A, B),
                             FindRoute(d, w, A.tile, B.tile, DefaultMaxLen)))
               \o ExtraLinksOf(d, w, profiles, sid, Tail(plist))

\* the merge of one settlement's extra links into its list (lines 604-609)
MergeLinks(have, links) ==
    LET existing == {<<have[i].partner, have[i].path>> : i \in 1..Len(have)}
    IN  have \o SelectSeq(links, LAMBDA l : <<l.partner, l.path>> \notin existing)

NoGraph == << >>

\* STEP 5: the backbone lists, each extended by its settlement's extra links
MergeAll(mst_links, extra) ==
    [sid \in DOMAIN mst_links \cup {s \in DOMAIN extra : extra[s] # <<>>} |->
        IF sid \in DOMAIN extra
        THEN MergeLinks(LinksOf(mst_links, sid), extra[sid])
        ELSE mst_links[sid]]

\* STEP 4: the extra links of every shortlist
ExtraLinks(d, w, profiles, partners) ==
    [sid \in DOMAIN partners |-> ExtraLinksOf(d, w, profiles, sid, partners[sid])]

\* what a call leaves: the returned graph (ret), the world with its tags, the
\* exception raised if any, and the locals the properties speak about
GenOutcome(graph, w, error, profiles, edges, k) ==
    [ret |-> graph, world |-> w, err |-> error, n |-> Len(profiles.order),
     profiles |-> profiles, edges |-> edges, accepted |-> k.accepted,
     mst_links |-> k.mst_links]

\* STEP 6 and the return
GenTagged(d, w, profiles, edges, k, trade_links) ==
    GenOutcome(trade_links, TagSettlements(d, w, profiles, trade_links), "none",
               profiles, edges, k)

\* STEPS 4-6 (lines 564-616)
GenExtras(d, w, profiles, edges, k) ==
    IF PartnersError(w, profiles) \/ GetRvError(d, w, profiles, SearchRadius)
    THEN GenOutcome(NoGraph, w, "AttributeError", profiles, edges, k)
    ELSE GenTagged(d, w, profiles, edges, k,
                   MergeAll(k.mst_links,
                            ExtraLinks(d, w, profiles,
                                       FindTradePartners(d, w, profiles, MaxPartners,
                                                         SearchRadius))))

\* STEP 3 (lines 519-562)
GenBackbone(d, w, profiles, edges) ==
    GenExtras(d, w, profiles, edges,
              Kruskal(w, profiles, edges,
                      [parent |-> [sid \in DOMAIN profiles.of |-> sid],
                       mst_links |-> NoGraph, accepted |-> <<>>]))

\* STEP 2 without the early return: the pair loop reads a second settlement
\* that is not there
GenRoutesUnguarded(d, w, profiles) ==
    IF Len(profiles.order) <= 1
    THEN GenOutcome(NoGraph, w, "IndexError", profiles, <<>>,
                    [mst_links |-> NoGraph, accepted |-> <<>>])
    ELSE GenBackbone(d, w, profiles,
                     SortByCost(CandidateEdges(d, w, profiles,
                                               PairSeq(Len(profiles.order)))))

\* STEP 2 (lines 497-516), after the early return for n <= 1
GenRoutes(d, w, profiles) ==
    IF Len(profiles.order) <= 1
    THEN GenOutcome(NoGraph, w, "none", profiles, <<>>,
                    [mst_links |-> NoGraph, accepted |-> <<>>])
    ELSE GenBackbone(d, w, profiles,
                     SortByCost(CandidateEdges(d, w, profiles,
                                               PairSeq(Len(profiles.order)))))

\* the index after a call: TagSettlements runs on the full path only, its
\* add_tag registers every tag it appends (tile_state.py lines 61-69) and its
\* removal loop (lines 418-422) tells the index nothing
TagSettlementsIndex(idx, g) ==
    IF g.err = "none" /\ g.n >= 2
    THEN [idx EXCEPT !.tag_index =
              @ \cup UNION {{<<x, g.profiles.of[sid].tile>> :
                                 x \in g.world[g.profiles.of[sid].tile].tags \cap DerivedTags} :
                            sid \in DOMAIN g.profiles.of}]
    ELSE idx

\* GenerateTradeRoutes(world), the economy tiles being iterated in the order ts
GenerateTradeRoutes(d, w, ts) == GenRoutes(d, w, CollectSettlementProfiles(w, ts))

-----
(* Specification of the route planner: FindRoute applied to drawn worlds *)

\* worlds of plain tiles in which at most MaxRough tiles cost more than 1
RoughWorlds(d) ==
    { [t \in Tiles(d) |-> IF t \in DOMAIN r
                            THEN [PlainTile EXCEPT !.movement_cost = r[t]]
                            ELSE PlainTile] :
        r \in UNION { [R -> 2..MaxCost] :
                        R \in {S \in SUBSET Tiles(d) : Cardinality(S) <= MaxRough} } }

\* the meta system of tile (0,0): its trade_links slot, None while the key is absent
EmptyMeta == [trade_links |-> None]
ClockStart == [global_tick |-> 0, local_tick |-> 6]

\* TimeSystem.subscribers after __init__ (timesim.py line 71); the callbacks of
\* the integer keys are held under interval
NoSubscribers == [local |-> << >>, global |-> << >>, interval |-> << >>]
\* bookkeeping of the run: the locals of the last GenerateTradeRoutes call, the
\* number of graphs built, the number of regenerations stored, the ticks in
\* which the effects were last applied and the risks last refreshed, and
\* (and the one before), whether the effects last read a risk that the tiles
\* no longer give
NoHist == [gen |-> None, made |-> 0, regen |-> 0, applied_tick |-> -1,
           refreshed_tick |-> -1, refreshed_before |-> -1, stale |-> FALSE]

InitRoute ==
    /\ dim = <<RouteW, RouteH>>
    /\ world \in RoughWorlds(dim)
    /\ widx = rebuild(world)
    /\ meta = EmptyMeta
    /\ reader = None
    /\ clock = ClockStart
    /\ subscribers = NoSubscribers
    /\ pc = "route"
    /\ err = "none"
    /\ steps = 0
    /\ new_trade_links = None
    /\ route = None
    /\ hist = NoHist

\* one call FindRoute(world, start, goal, max_len)
CallFindRoute ==
    /\ pc = "route"
    /\ route = None
    /\ \E start \in Tiles(dim), goal \in Tiles(dim), max_len \in {0, ShortLen, DefaultMaxLen} :
          route' = Some([start |-> start, goal |-> goal, max_len |-> max_len,
                         path |-> FindRoute(dim, world, start, goal, max_len)])
    /\ UNCHANGED <<dim, subscribers, widx, world, meta, reader, clock, pc, err, steps, new_trade_links, hist>>

NextRoute == CallFindRoute

SpecRoute == InitRoute /\ [][NextRoute]_vars

\* C4: whenever FindRoute returns a path, its total movement cost is the
\* least cost of any 8-connected path from start to goal on the grid.
C4_RouteIsShortest ==
    (route # None /\ Val(route).path # None)
        => TravelCost(world, Val(route).path)
             = ShortestCost(dim, world, Val(route).start, Val(route).goal)

\* C30: a path FindRoute returns starts at start and ends at goal, every two
\* consecutive tiles of it are distinct 8-neighbours inside the grid, and no
\* tile occurs in it twice
C30_PathWellFormed ==
    (route # None /\ Val(route).path # None)
        => LET p == Val(route).path
           IN  /\ p[1] = Val(route).start
               /\ p[Len(p)] = Val(route).goal
               /\ \A i \in 1..Len(p) : p[i] \in Tiles(dim)
               /\ \A i \in 1..(Len(p) - 1) :
                     /\ p[i] # p[i + 1]
                     /\ p[i + 1][1] - p[i][1] \in {-1, 0, 1}
                     /\ p[i + 1][2] - p[i][2] \in {-1, 0, 1}
               /\ \A i, j \in 1..Len(p) : p[i] = p[j] => i = j

\* a returned path of four tiles or more that leaves the straight line
C30_Witness ==
    /\ route # None
    /\ Val(route).path # None
    /\ Len(Val(route).path) >= 4
    /\ \E i \in 1..Len(Val(route).path) :
          /\ Val(route).path[i][1] # Val(route).start[1]
          /\ Val(route).path[i][2] # Val(route).start[2]
          /\ Val(route).path[i][1] # Val(route).goal[1]
          /\ Val(route).path[i][2] # Val(route).goal[2]

\* the number of frontier pops after which the search pops the goal when
\* nothing cuts it short, None if the frontier empties first; n pops are done
RECURSIVE PopsUntilGoal(_, _, _, _, _)
PopsUntilGoal(d, w, goal, s, n) ==
    IF s.heap = {} THEN None
    ELSE LET e == HeapMin(s.heap)
         IN  IF e.t = goal THEN Some(n + 1)
             ELSE PopsUntilGoal(d, w, goal,
                                Relax(w, goal, e.t, neighbors(d, e.t),
                                      [s EXCEPT !.heap = s.heap \ {e}]),
                                n + 1)

PopsToGoal(d, w, start, goal) ==
    PopsUntilGoal(d, w, goal,
                  [heap |-> {[g |-> 0, d2 |-> 0, n |-> 0, t |-> start]},
                   came |-> << >>,
                   gscore |-> [k \in {start} |-> 0],
                   counter |-> 1],
                  0)

\* C13: FindRoute returns None exactly when the goal is not reached within
\* max_len frontier pops, and a path whenever it is.
C13_NoneIffNotReached ==
    route # None
        => LET r == Val(route)
               pops == PopsToGoal(dim, world, r.start, r.goal)
           IN  (r.path = None) <=> (pops = None \/ Val(pops) > r.max_len)

-----------------------------------------------------------------------------
(* Specification of the risk evaluator: EvaluateRouteRisk applied to paths  *)
(* over drawn tiles                                                         *)

Biomes ==
    {"forest", "rainforest", "desert", "semi_arid", "scrubland", "cold_steppe",
     "wetland", "mangrove", "savanna", "mountain", "alpine", "montane_forest",
     "grassland"}

\* a plain tile, and the tiles that differ from it in one attribute
FeatureTiles ==
    {PlainTile}
    \cup {[PlainTile EXCEPT !.biome = b] : b \in Biomes}
    \cup {[PlainTile EXCEPT !.weather = Some(s)] :
              s \in {"storm", "rain", "drought", "clear_weather"}}
    \cup {[PlainTile EXCEPT !.humidity = Some(h)] : h \in {10, 50, 90}}
    \cup {[PlainTile EXCEPT !.soil = Some(f)] : f \in {20, 80}}
    \cup {[PlainTile EXCEPT !.eco = Some([carnivores |-> e[1], herbivores |-> e[2]])] :
              e \in {<<3, 1>>, <<1, 3>>, <<2, 0>>}}
    \cup {[PlainTile EXCEPT !.eco_risk = Some(30)]}
    \cup {[PlainTile EXCEPT !.tags = g] :
              g \in {{"forest_bloom"}, {"predator_surge"}, {"ecological_collapse"},
                     {"bandit_settlement"}, {"forest_bloom", "predator_surge"}}}

\* the tile that has the attributes in which a differs from a plain tile, and b's others
Overlay(a, b) == [f \in DOMAIN PlainTile |-> IF a[f] # PlainTile[f] THEN a[f] ELSE b[f]]

\* a strip of two tiles: the first differs from a plain tile in at most two
\* attributes, the second in at most one
RiskWorlds ==
    { [t \in Tiles(<<2, 1>>) |-> IF t = <<0, 0>> THEN Overlay(a, b) ELSE c] :
        a \in FeatureTiles, b \in FeatureTiles, c \in FeatureTiles }

\* the tile sequences of length at most n
PathsUpTo(d, n) == UNION { [1..k -> Tiles(d)] : k \in 0..n }

InitRisk ==
    /\ dim = <<2, 1>>
    /\ world \in RiskWorlds
    /\ widx = rebuild(world)
    /\ meta = EmptyMeta
    /\ reader = None
    /\ clock = ClockStart
    /\ subscribers = NoSubscribers
    /\ pc = "risk"
    /\ err = "none"
    /\ steps = 0
    /\ new_trade_links = None
    /\ route = None
    /\ hist = NoHist

\* one call EvaluateRouteRisk(path)
CallEvaluateRouteRisk ==
    /\ pc = "risk"
    /\ route = None
    /\ \E path \in PathsUpTo(dim, MaxPath) :
          route' = Some([path |-> path, risk |-> EvaluateRouteRisk(world, path)])
    /\ UNCHANGED <<dim, subscribers, widx, world, meta, reader, clock, pc, err, steps, new_trade_links, hist>>

NextRisk == CallEvaluateRouteRisk

SpecRisk == InitRisk /\ [][NextRisk]_vars

\* the per-tile terms of the risk score as the specification lists them, in
\* hundredths
ListedBiomePenalty(b) ==
    CASE b \in {"forest", "rainforest"} -> 50
      [] b \in {"desert", "scrubland", "cold_steppe"} -> 40
      [] b \in {"wetland", "mangrove"} -> 60
      [] b = "savanna" -> 20
      [] b \in {"mountain", "alpine"} -> 70
      [] OTHER -> 0

\* the biome groups with the two members the listing leaves out
FullBiomePenalty(b) ==
    CASE b = "semi_arid" -> 40
      [] b = "montane_forest" -> 70
      [] OTHER -> ListedBiomePenalty(b)

ListedWeatherTerm(tile) ==
    IF tile.weather = Some("storm") THEN 70
    ELSE IF tile.weather = Some("rain") THEN 20
    ELSE IF tile.weather = Some("drought") THEN 30 ELSE 0

ListedHumidityTerm(tile) ==
    IF tile.humidity = None THEN 0
    ELSE IF Val(tile.humidity) < 20 THEN 30
    ELSE IF Val(tile.humidity) > 85 THEN 40 ELSE 0

ListedSoilTerm(tile) ==
    IF tile.soil = None THEN 0
    ELSE IF Val(tile.soil) < 25 THEN 30
    ELSE IF Val(tile.soil) > 70 THEN -20 ELSE 0

ListedPredatorTerm(tile) ==
    IF tile.eco = None THEN 0
    ELSE LET herb == Max(Val(tile.eco).herbivores, 1)
         IN  IF Val(tile.eco).carnivores > herb
             THEN (Val(tile.eco).carnivores * 60) \div herb ELSE 0

ListedEcoRiskTerm(tile) == IF tile.eco_risk = None THEN 0 ELSE Val(tile.eco_risk)

ListedTagWeights ==
    [forest_bloom |-> -40, predator_surge |-> 120, ecological_collapse |-> 150,
     bandit_settlement |-> 100]

ListedTagTerm(tile) == SumOver(ListedTagWeights, tile.tags \cap DOMAIN ListedTagWeights)

ListedOtherTerms(tile) ==
    ListedWeatherTerm(tile) + ListedHumidityTerm(tile) + ListedSoilTerm(tile)
      + ListedPredatorTerm(tile) + ListedEcoRiskTerm(tile) + ListedTagTerm(tile)

\* C16 as stated: the risk of a path is the sum over its tiles of the listed
\* biome, weather, humidity, soil, predator, eco_risk and tag terms, floored
\* at 0 once at the end.
C16_RiskIsListedSum ==
    route # None
        => LET path == Val(route).path
           IN  Val(route).risk
                 = Max(0, SumSeq([i \in 1..Len(path) |->
                                    ListedBiomePenalty(world[path[i]].biome)
                                      + ListedOtherTerms(world[path[i]])]))

\* C16 amended: the same, the biome penalty being +0.4 for semi_arid too and
\* +0.7 for montane_forest too.
C16_RiskIsFullSum ==
    route # None
        => LET path == Val(route).path
           IN  Val(route).risk
                 = Max(0, SumSeq([i \in 1..Len(path) |->
                                    FullBiomePenalty(world[path[i]].biome)
                                      + ListedOtherTerms(world[path[i]])]))

\* a negative tile (forest bloom) offsets part of a positive one
C16_Witness ==
    /\ route # None
    /\ Val(route).path = << <<0, 0>>, <<1, 0>> >>
    /\ world[<<0, 0>>].tags = {"forest_bloom"}
    /\ world[<<0, 0>>].soil = Some(80)
    /\ world[<<1, 0>>].biome = "montane_forest"
    /\ Val(route).risk = 10

-----------------------------------------------------------------------------
(* Specification of the network synthesizer: GenerateTradeRoutes applied to *)
(* drawn worlds                                                             *)

DefaultTraits ==
    [dominance |-> 50, agreeableness |-> 50, anxiety_sensitivity |-> 50,
     novelty_seek |-> 50, self_worth |-> 50]

\* a settlement AI entity as FindTradePartners and TagSettlements read it: a
\* personality component and, under "relationship", a component that answers
\* get_rv; relationships start empty
SettlementAI(t) ==
    [id |-> t, personality |-> Some(DefaultTraits),
     relationship |-> Some([cls |-> "MetaRelationshipComponent", table |-> << >>])]

\* an economy as InitializeSettlementEconomy writes it (population 100,
\* supplies 100.0, wealth 100.0, prosperity supplies + wealth - 0.2 population)
Economy(sid, subs) ==
    [id |-> sid, population |-> 100, wealth |-> 10000, supplies |-> 10000,
     prosperity |-> 18000, sub_commodities |-> subs,
     price_multiplier |-> 100, power_projection |-> 1800]

\* kinds of settlement drawn: a fish and grain exporter and a settlement with no
\* stock, each with its AI entity, and a settlement with no stock and no entity
SettlementKinds ==
    { [subs |-> [fish |-> 5000, grain |-> 3000], ai |-> TRUE],
      [subs |-> << >>, ai |-> TRUE],
      [subs |-> << >>, ai |-> FALSE] }

RoughTile == [PlainTile EXCEPT !.movement_cost = 2, !.terrain = "forest", !.biome = "forest"]

\* the k-th settlement tile in row-major order gets id k
RankIn(S, t) ==
    Cardinality({u \in S : u[2] < t[2] \/ (u[2] = t[2] /\ u[1] <= t[1])})

\* a tile turned into the settlement sid of the given kind
SettledTile(base, t, sid, kind) ==
    [base EXCEPT !.terrain = "settlement",
                 !.economy = Some(Economy(sid, kind.subs)),
                 !.entity = IF kind.ai THEN Some(SettlementAI(t)) ELSE None]

\* worlds with at most MaxSettle settlements and at most GenRough rough tiles
SettledWorlds(d) ==
    { [t \in Tiles(d) |->
          LET base == IF t \in DOMAIN r
                      THEN [RoughTile EXCEPT !.movement_cost = r[t]] ELSE PlainTile
          IN  IF t \in DOMAIN kinds
              THEN SettledTile(base, t, RankIn(DOMAIN kinds, t), kinds[t])
              ELSE base] :
        r \in UNION { [R -> 2..MaxCost] :
                        R \in {S \in SUBSET Tiles(d) : Cardinality(S) <= GenRough} },
        kinds \in UNION { [P -> SettlementKinds] :
                        P \in {S \in SUBSET Tiles(d) : Cardinality(S) <= MaxSettle} } }

InitGen ==
    /\ dim = <<GenW, GenH>>
    /\ world \in SettledWorlds(dim)
    /\ widx = rebuild(world)
    /\ meta = EmptyMeta
    /\ reader = None
    /\ clock = ClockStart
    /\ subscribers = NoSubscribers
    /\ pc = "gen"
    /\ err = "none"
    /\ steps = 0
    /\ new_trade_links = None
    /\ route = None
    /\ hist = NoHist

\* one call GenerateTradeRoutes(world)
CallGenerate ==
    /\ pc = "gen"
    /\ \E ts \in Orders(with_system(widx, "economy")) :
          \E g \in {GenerateTradeRoutes(dim, world, ts)} :
              /\ world' = g.world
              /\ widx' = TagSettlementsIndex(widx, g)
              /\ err' = g.err
              /\ new_trade_links' = IF g.err = "none" THEN Some(g.ret) ELSE None
              /\ hist' = [hist EXCEPT !.made = @ + 1,
                                      !.gen = Some([n |-> g.n, profiles |-> g.profiles,
                                                    edges |-> g.edges, accepted |-> g.accepted,
                                                    mst_links |-> g.mst_links])]
    /\ pc' = "returned"
    /\ UNCHANGED <<dim, subscribers, meta, reader, clock, steps, route>>

NextGen == CallGenerate

SpecGen == InitGen /\ [][NextGen]_vars

-----------------------------------------------------------------------------
(* Specification of the synthesizer on worlds whose settlement ids are drawn *)
(* independently (econ["id"] = rng.randint(1, 9999)), so that two tiles may  *)
(* carry the same id                                                        *)

\* worlds of plain tiles with at most MaxSettle settlements, ids in 1..MaxId
IdWorlds(d) ==
    { [t \in Tiles(d) |->
          IF t \in DOMAIN a THEN SettledTile(PlainTile, t, a[t].id, a[t].kind)
          ELSE PlainTile] :
        a \in UNION { [P -> [id : 1..MaxId, kind : SettlementKinds]] :
                        P \in {S \in SUBSET Tiles(d) : Cardinality(S) <= MaxSettle} } }

InitIds ==
    /\ dim = <<GenW, GenH>>
    /\ world \in IdWorlds(dim)
    /\ widx = rebuild(world)
    /\ meta = EmptyMeta
    /\ reader = None
    /\ clock = ClockStart
    /\ subscribers = NoSubscribers
    /\ pc = "gen"
    /\ err = "none"
    /\ steps = 0
    /\ new_trade_links = None
    /\ route = None
    /\ hist = NoHist

NextIds == CallGenerate

SpecIds == InitIds /\ [][NextIds]_vars

-----------------------------------------------------------------------------
(* Specification of the synthesizer on economies that tile events have      *)
(* drained: TriggerEventFromLibrary and TriggerTileEvents (tile_events.py)  *)
(* called any number of times before GenerateTradeRoutes                    *)

RaidDuration == 3      \* TILE_EVENT_LIBRARY["common_raid"]["duration"]
RaidDrain == 500       \* its supply_drain, in hundredths

\* an exporter and a settlement without stock, both with the least wealth and
\* supplies InitializeSettlementEconomy draws (50 and 80)
LeanEconomy(sid, subs) ==
    [Economy(sid, subs) EXCEPT !.wealth = 5000, !.supplies = 8000, !.prosperity = 11000,
                               !.power_projection = 1100]

RaidWorlds(d) ==
    { [t \in Tiles(d) |->
          IF t = <<0, 0>>
          THEN [SettledTile(PlainTile, t, 1, k1) EXCEPT
                    !.economy = Some(LeanEconomy(1, k1.subs))]
          ELSE IF t = <<d[1] - 1, d[2] - 1>>
          THEN [SettledTile(PlainTile, t, 2, k2) EXCEPT
                    !.economy = Some(LeanEconomy(2, k2.subs))]
          ELSE PlainTile] :
        k1 \in {k \in SettlementKinds : k.subs # << >>},
        k2 \in {k \in SettlementKinds : k.subs = << >>} }

InitEvents ==
    /\ dim = <<GenW, GenH>>
    /\ world \in RaidWorlds(dim)
    /\ widx = rebuild(world)
    /\ meta = EmptyMeta
    /\ reader = None
    /\ clock = ClockStart
    /\ subscribers = NoSubscribers
    /\ pc = "gen"
    /\ err = "none"
    /\ steps = 0
    /\ new_trade_links = None
    /\ route = None
    /\ hist = NoHist

\* RegisterTileEvent(tile, "common_raid", 3, {"supply_drain": 5}): the entry of
\* the event is written with its full duration; raids are started on
\* settlements no raid is active on
TriggerEventFromLibrary ==
    /\ pc = "gen"
    /\ \E t \in EconomyTiles(dim, world) :
          /\ "common_raid" \notin DOMAIN world[t].active_events
          /\ world' = [world EXCEPT ![t].active_events =
                           [e \in DOMAIN world[t].active_events \cup {"common_raid"} |->
                               IF e = "common_raid" THEN RaidDuration
                               ELSE world[t].active_events[e]]]
    /\ UNCHANGED <<dim, subscribers, widx, meta, reader, clock, pc, err, steps, new_trade_links, route, hist>>

\* one pass of the loop over the active events of a tile (lines 158-172):
\* supply_drain is subtracted with no floor, every event loses one tick and
\* expires at zero
TickedTile(tile) ==
    LET ev == tile.active_events
        drain == IF "common_raid" \in DOMAIN ev THEN RaidDrain ELSE 0
    IN  [tile EXCEPT !.economy = Some([Val(tile.economy) EXCEPT !.supplies = @ - drain]),
                     !.active_events = [e \in {x \in DOMAIN ev : ev[x] > 1} |-> ev[e] - 1]]

TriggerTileEvents ==
    /\ pc = "gen"
    /\ \A t \in EconomyTiles(dim, world) : Val(world[t].economy).supplies > 0 - MaxDebt
    /\ world' = [t \in Tiles(dim) |->
                    IF world[t].economy # None /\ DOMAIN world[t].active_events # {}
                    THEN TickedTile(world[t]) ELSE world[t]]
    /\ UNCHANGED <<dim, subscribers, widx, meta, reader, clock, pc, err, steps, new_trade_links, route, hist>>

NextEvents ==
    \/ TriggerEventFromLibrary
    \/ TriggerTileEvents
    \/ CallGenerate

SpecEvents == InitEvents /\ [][NextEvents]_vars

-----------------------------------------------------------------------------
(* Specification of the spatial index: the mutators of TileState             *)
(* (tile_state.py lines 55-102) applied to tiles that point to the index,    *)
(* and GenerateTradeRoutes, whose TagSettlements edits tile.tags             *)

MaxEdits == 3          \* mutator calls made before GenerateTradeRoutes

\* the tiles the mutators are applied to: a settlement and a plain tile
IndexTiles == {<<0, 0>>, <<1, 0>>}

\* the tags handed to add_tag and remove_tag
IndexTags == {"river", "River", "bandit_settlement"}

\* tag.strip().lower() on the tags drawn
Lowered(tag) == IF tag = "River" THEN "river" ELSE tag

InitIndex ==
    /\ dim = <<GenW, GenH>>
    /\ world \in RaidWorlds(dim)
    /\ widx = rebuild(world)
    /\ meta = EmptyMeta
    /\ reader = None
    /\ clock = ClockStart
    /\ subscribers = NoSubscribers
    /\ pc = "gen"
    /\ err = "none"
    /\ steps = 0
    /\ new_trade_links = None
    /\ route = None
    /\ hist = NoHist

\* what every mutator call leaves alone
Edited ==
    /\ pc = "gen"
    /\ steps < MaxEdits
    /\ steps' = steps + 1
    /\ UNCHANGED <<dim, subscribers, meta, reader, clock, pc, err, new_trade_links, route, hist>>

\* tile.attach_system("soil", {"fertility": f}): registered the first time
attach_system ==
    /\ Edited
    /\ \E t \in IndexTiles, f \in {40, 80} :
          /\ world' = [world EXCEPT ![t].soil = Some(f)]
          /\ widx' = IF world[t].soil = None
                     THEN [widx EXCEPT !.system_index = @ \cup {<<"soil", t>>}]
                     ELSE widx

\* tile.ensure_system("weather"): an empty dict is created when the key is
\* absent (a weather system without a state), and the index is not told
ensure_system ==
    /\ Edited
    /\ \E t \in IndexTiles :
          world' = [world EXCEPT ![t].weather = IF @ = None THEN Some("") ELSE @]
    /\ UNCHANGED widx

\* tile.add_tag(tag)
add_tag ==
    /\ Edited
    /\ \E t \in IndexTiles, tag \in IndexTags :
          IF Lowered(tag) \notin world[t].tags
          THEN /\ world' = [world EXCEPT ![t].tags = @ \cup {Lowered(tag)}]
               /\ widx' = [widx EXCEPT !.tag_index = @ \cup {<<Lowered(tag), t>>}]
          ELSE UNCHANGED <<world, widx>>

\* tile.remove_tag(tag)
remove_tag ==
    /\ Edited
    /\ \E t \in IndexTiles, tag \in IndexTags :
          IF tag \in world[t].tags
          THEN /\ world' = [world EXCEPT ![t].tags = @ \ {tag}]
               /\ widx' = [widx EXCEPT !.tag_index = @ \ {<<tag, t>>}]
          ELSE UNCHANGED <<world, widx>>

\* tile.set_tags(tags): the list without its duplicates replaces tile.tags
set_tags ==
    /\ Edited
    /\ \E t \in IndexTiles, tags \in {<< >>, <<"river">>, <<"river", "river">>} :
          world' = [world EXCEPT ![t].tags = {tags[i] : i \in DOMAIN tags}]
    /\ UNCHANGED widx

\* tile.set_terrain(new_terrain)
set_terrain ==
    /\ Edited
    /\ \E t \in IndexTiles, new_terrain \in {"plains", "forest"} :
          /\ world' = [world EXCEPT ![t].terrain = new_terrain]
          /\ widx' = [widx EXCEPT !.terrain_index =
                          (@ \ {<<world[t].terrain, t>>}) \cup {<<new_terrain, t>>}]

NextIndex ==
    \/ attach_system
    \/ ensure_system
    \/ add_tag
    \/ remove_tag
    \/ set_tags
    \/ set_terrain
    \/ CallGenerate

SpecIndex == InitIndex /\ [][NextIndex]_vars

\* C17: after any of the tile mutators, and after TagSettlements has removed
\* the derived tags, the index holds exactly what rebuild() would compute
\* from the tiles
C17_IndexEqualsRebuild == widx = rebuild(world)

-----------------------------------------------------------------------------
(* Specification of the nearest-match queries: WorldIndex.nearest_with_system *)
(* and GetNearestTileWithSystem, called for "economy" on worlds whose index   *)
(* is built (main.py line 154) or not yet stored (world_index_store.py holds  *)
(* world_index = None until main.py line 157)                                 *)

MaxRadius == 2         \* largest max_radius passed to the queries
MaxNear == 2           \* tiles that carry the subsystem asked for

\* worlds of plain tiles of which at most MaxNear are settlements
NearWorlds(d) ==
    { [t \in Tiles(d) |->
          IF t \in S THEN [PlainTile EXCEPT !.terrain = "settlement",
                                            !.economy = Some(Economy(1 + t[1] + d[1] * t[2], << >>))]
          ELSE PlainTile] :
        S \in {S \in SUBSET Tiles(d) : Cardinality(S) <= MaxNear} }

\* truth value of tile.get_system(name): None and the empty dict (a weather
\* system without a state) are false
Truthy(name, sys) == sys # None /\ (name = "weather" => sys # Some(""))

\* the tiles of the square window of radius r about a position, inside the grid
Window(d, from, r) ==
    {t \in Tiles(d) : t[1] - from[1] \in (0 - r)..r /\ t[2] - from[2] \in (0 - r)..r}

\* the tile a scan of rows ascending, columns ascending inside a row, meets first
RowMajorFirst(S) ==
    CHOOSE t \in S : \A u \in S : t[2] < u[2] \/ (t[2] = u[2] /\ t[1] <= u[1])

\* the expanding radius scan (world_index.py lines 117-123, world_utils.py
\* lines 136-142): the first tile with a truthy subsystem in the first window
\* that holds one
RadiusScan(d, w, name, from, max_radius) ==
    LET hits(r) == {t \in Window(d, from, r) : Truthy(name, get_system(w[t], name))}
        rs == {r \in 0..max_radius : hits(r) # {}}
    IN  IF rs = {} THEN {None}
        ELSE {Some(RowMajorFirst(hits(CHOOSE r \in rs : \A q \in rs : r <= q)))}

\* min(tiles, key = squared distance) over a list made from a set: any tile at
\* the least distance can come first
NearestOf(tiles, from) ==
    {Some(t) : t \in {t \in tiles : \A u \in tiles : Dist2(t, from) <= Dist2(u, from)}}

\* WorldIndex.nearest_with_system(system_name, from_x, from_y, max_radius):
\* the results the call can give
nearest_with_system(idx, d, w, name, from, max_radius) ==
    IF with_system(idx, name) # {}
    THEN NearestOf(with_system(idx, name), from)
    ELSE RadiusScan(d, w, name, from, max_radius)

\* GetNearestTileWithSystem(world, x, y, system_name, max_radius): with an index
\* stored it answers from the index alone, without one it scans
GetNearestTileWithSystem(idx, d, w, name, from, max_radius) ==
    IF idx # None
    THEN IF with_system(idx, name) = {} THEN {None}
         ELSE NearestOf(with_system(idx, name), from)
    ELSE RadiusScan(d, w, name, from, max_radius)

InitNearest ==
    /\ dim = <<GenW, GenH>>
    /\ world \in NearWorlds(dim)
    /\ widx \in {None, rebuild(world)}
    /\ meta = EmptyMeta
    /\ reader = None
    /\ clock = ClockStart
    /\ subscribers = NoSubscribers
    /\ pc = "near"
    /\ err = "none"
    /\ steps = 0
    /\ new_trade_links = None
    /\ route = None
    /\ hist = NoHist

CallNearestWithSystem ==
    /\ pc = "near"
    /\ widx # None
    /\ \E from \in Tiles(dim), max_radius \in 0..MaxRadius :
          \E ret \in nearest_with_system(widx, dim, world, "economy", from, max_radius) :
              route' = Some([fn |-> "nearest_with_system", from |-> from,
                             max_radius |-> max_radius, ret |-> ret])
    /\ UNCHANGED <<dim, subscribers, widx, world, meta, reader, clock, pc, err, steps, new_trade_links, hist>>

CallGetNearestTileWithSystem ==
    /\ pc = "near"
    /\ \E from \in Tiles(dim), max_radius \in 0..MaxRadius :
          \E ret \in GetNearestTileWithSystem(widx, dim, world, "economy", from, max_radius) :
              route' = Some([fn |-> "GetNearestTileWithSystem", from |-> from,
                             max_radius |-> max_radius, ret |-> ret])
    /\ UNCHANGED <<dim, subscribers, widx, world, meta, reader, clock, pc, err, steps, new_trade_links, hist>>

NextNearest == CallNearestWithSystem \/ CallGetNearestTileWithSystem

SpecNearest == InitNearest /\ [][NextNearest]_vars

\* the tiles within max_radius (square window) that carry the subsystem
CarriersWithin(from, max_radius) ==
    {t \in Window(dim, from, max_radius) : world[t].economy # None}

\* C18: a nearest-match query returns a tile that carries the subsystem and is
\* at the least Euclidean distance among the tiles that carry it, whether it
\* answers from the index or by the radius scan; it returns None only if no
\* tile within max_radius carries the subsystem
C18_NearestIsEuclidean ==
    (pc = "near" /\ route # None)
        => LET r == Val(route)
           IN  IF r.ret = None
               THEN CarriersWithin(r.from, r.max_radius) = {}
               ELSE /\ Val(r.ret) \in EconomyTiles(dim, world)
                    /\ \A t \in EconomyTiles(dim, world) :
                          Dist2(Val(r.ret), r.from) <= Dist2(t, r.from)

-----------------------------------------------------------------------------
(* Specification of the settlement profiles: CollectSettlementProfiles called *)
(* on worlds whose first settlement holds stocks about the two thresholds     *)

\* on-hand quantities drawn, in thousandths: about 0.1, 0.2 and 1.0
Stocks == {0, 99, 100, 200, 999, 1000, 1001}

\* commodities drawn: two of the demand table and one outside it
StockNames == {"grain", "iron", "wine"}

\* a settlement with drawn stocks and population at (0, 0), one without stock
\* at the far corner
ProfileWorlds(d) ==
    { [t \in Tiles(d) |->
          IF t = <<0, 0>>
          THEN [PlainTile EXCEPT !.terrain = "settlement",
                                 !.economy = Some([Economy(1, subs) EXCEPT !.population = pop])]
          ELSE IF t = <<d[1] - 1, d[2] - 1>>
          THEN [PlainTile EXCEPT !.terrain = "settlement",
                                 !.economy = Some(Economy(2, << >>))]
          ELSE PlainTile] :
        subs \in UNION {[K -> Stocks] : K \in SUBSET StockNames},
        pop \in {100, 200} }

InitProfiles ==
    /\ dim = <<GenW, GenH>>
    /\ world \in ProfileWorlds(dim)
    /\ widx = rebuild(world)
    /\ meta = EmptyMeta
    /\ reader = None
    /\ clock = ClockStart
    /\ subscribers = NoSubscribers
    /\ pc = "profiles"
    /\ err = "none"
    /\ steps = 0
    /\ new_trade_links = None
    /\ route = None
    /\ hist = NoHist

\* profiles = CollectSettlementProfiles(world): the function reads the index
\* and the economies and writes to neither
CallCollectSettlementProfiles ==
    /\ pc = "profiles"
    /\ \E ts \in Orders(with_system(widx, "economy")) :
          route' = Some([fn |-> "CollectSettlementProfiles",
                         profiles |-> CollectSettlementProfiles(world, ts)])
    /\ UNCHANGED <<dim, subscribers, widx, world, meta, reader, clock, pc, err, steps, new_trade_links, hist>>

NextProfiles == CallCollectSettlementProfiles

SpecProfiles == InitProfiles /\ [][NextProfiles]_vars

-----------------------------------------------------------------------------
(* Specification of the partner shortlists: FindTradePartners called on the  *)
(* profiles of worlds whose settlements have an AI entity or none, with a    *)
(* relationship component of either class                                    *)

\* the entity CreateSettlementAI builds: its "relationship" component is the
\* RelationshipComponent (the scores it holds are not read by FindTradePartners)
CreateSettlementAI(t) ==
    [id |-> t, personality |-> Some(DefaultTraits),
     relationship |-> Some([cls |-> "RelationshipComponent", table |-> << >>])]

\* an entity that remembers the entity of tile (0, 0) with valence -1.0
WaryAI(t) ==
    [SettlementAI(t) EXCEPT !.relationship =
        Some([cls |-> "MetaRelationshipComponent",
              table |-> [o \in {<<0, 0>>} |-> [rv |-> -100, rs |-> 0]]])]

\* exporters and settlements without stock, each with no entity or with an
\* entity without relationship records; settlements without stock also with
\* a record or with the entity of the factory
PartnerKinds ==
    { [subs |-> [fish |-> 5000, grain |-> 3000], ai |-> "none"],
      [subs |-> [fish |-> 5000, grain |-> 3000], ai |-> "SettlementAI"],
      [subs |-> << >>, ai |-> "none"],
      [subs |-> << >>, ai |-> "SettlementAI"],
      [subs |-> << >>, ai |-> "WaryAI"],
      [subs |-> << >>, ai |-> "CreateSettlementAI"] }

EntityOf(kind, t) ==
    CASE kind.ai = "none" -> None
      [] kind.ai = "SettlementAI" -> Some(SettlementAI(t))
      [] kind.ai = "WaryAI" -> Some(WaryAI(t))
      [] kind.ai = "CreateSettlementAI" -> Some(CreateSettlementAI(t))

\* worlds of plain tiles with at most MaxSettle settlements of these kinds
PartnerWorlds(d) ==
    { [t \in Tiles(d) |->
          IF t \in DOMAIN kinds
          THEN [PlainTile EXCEPT !.terrain = "settlement",
                                 !.economy = Some(Economy(RankIn(DOMAIN kinds, t), kinds[t].subs)),
                                 !.entity = EntityOf(kinds[t], t)]
          ELSE PlainTile] :
        kinds \in UNION { [P -> PartnerKinds] :
                        P \in {S \in SUBSET Tiles(d) : Cardinality(S) <= MaxSettle} } }

InitPartners ==
    /\ dim = <<GenW, GenH>>
    /\ world \in PartnerWorlds(dim)
    /\ widx = rebuild(world)
    /\ meta = EmptyMeta
    /\ reader = None
    /\ clock = ClockStart
    /\ subscribers = NoSubscribers
    /\ pc = "partners"
    /\ err = "none"
    /\ steps = 0
    /\ new_trade_links = None
    /\ route = None
    /\ hist = NoHist

\* partners = FindTradePartners(world, profiles, max_partners, search_radius)
\* on the profiles just collected
CallFindTradePartners ==
    /\ pc = "partners"
    /\ \E ts \in Orders(with_system(widx, "economy")),
          max_partners \in {1, 2, MaxPartners}, search_radius \in {1, SearchRadius} :
          \E profiles \in {CollectSettlementProfiles(world, ts)} :
              IF PartnersError(world, profiles)
                    \/ GetRvError(dim, world, profiles, search_radius)
              THEN /\ err' = "AttributeError"
                   /\ route' = Some([fn |-> "FindTradePartners", of |-> profiles.of,
                                     max_partners |-> max_partners,
                                     search_radius |-> search_radius,
                                     partners |-> None])
              ELSE /\ err' = "none"
                   /\ route' = Some([fn |-> "FindTradePartners", of |-> profiles.of,
                                     max_partners |-> max_partners,
                                     search_radius |-> search_radius,
                                     partners |-> Some(FindTradePartners(dim, world, profiles,
                                                           max_partners, search_radius))])
    /\ pc' = "done"
    /\ UNCHANGED <<dim, subscribers, widx, world, meta, reader, clock, steps, new_trade_links, hist>>

NextPartners == CallFindTradePartners

SpecPartners == InitPartners /\ [][NextPartners]_vars

-----------------------------------------------------------------------------
(* Specification of the tagger: GenerateTradeRoutes on worlds whose first     *)
(* settlement sits on the thresholds of TagSettlements and carries tags of    *)
(* an earlier pass                                                            *)

TagW == 4              \* grid of the tagger specification
TagH == 2

\* what is drawn for a world: the relationship records of the first
\* settlement, whether there is a second settlement, the terrain and the tags
\* of the open tiles, the economy and the earlier tags of the first settlement
TagDraws ==
    [rel : {"none", "hostile", "distrust"},
     second : BOOLEAN,
     terrain : {"plains", "forest"},
     surge : BOOLEAN,
     prosperity : {3900, 4900, 5000, 20100},
     supplies : {4900, 10000},
     earlier : {{}, {"supplies_deficit", "trade_hub"},
                {"bandit_infested_settlement", "prosperous"}}]

\* the entity of the first settlement: no record, or a record of the entity
\* of the far corner with valence and sociality -0.6, or with valence -0.6 only
TagAI(d, t, rel) ==
    [SettlementAI(t) EXCEPT !.relationship =
        Some([cls |-> "MetaRelationshipComponent",
              table |-> IF rel = "none" THEN << >>
                        ELSE [o \in {<<d[1] - 1, d[2] - 1>>} |->
                                 [rv |-> -60, rs |-> IF rel = "hostile" THEN -60 ELSE 0]]])]

TagWorlds(d) ==
    { [t \in Tiles(d) |->
          IF t = <<0, 0>>
          THEN [PlainTile EXCEPT
                   !.terrain = "settlement",
                   !.tags = c.earlier,
                   !.economy = Some([Economy(1, [fish |-> 5000, grain |-> 3000]) EXCEPT
                                        !.prosperity = c.prosperity,
                                        !.supplies = c.supplies]),
                   !.entity = Some(TagAI(d, t, c.rel))]
          ELSE IF t = <<d[1] - 1, d[2] - 1>> /\ c.second
          THEN SettledTile(PlainTile, t, 2, [subs |-> << >>, ai |-> TRUE])
          ELSE [PlainTile EXCEPT !.terrain = c.terrain,
                                 !.tags = IF c.surge THEN {"predator_surge"} ELSE {}]] :
        c \in TagDraws }

InitTags ==
    /\ dim = <<TagW, TagH>>
    /\ world \in TagWorlds(dim)
    /\ widx = rebuild(world)
    /\ meta = EmptyMeta
    /\ reader = None
    /\ clock = ClockStart
    /\ subscribers = NoSubscribers
    /\ pc = "gen"
    /\ err = "none"
    /\ steps = 0
    /\ new_trade_links = None
    /\ route = None
    /\ hist = NoHist

NextTags == CallGenerate

SpecTags == InitTags /\ [][NextTags]_vars

-----------------------------------------------------------------------------
(* ApplyTradeEffects, UpdateTradeRouteRisks, UpdateTradeNetwork *)

\* floor of the fifth root of n, by bisection on lo..hi
RECURSIVE Iroot5In(_, _, _)
Iroot5In(n, lo, hi) ==
    IF lo >= hi THEN lo
    ELSE LET mid == (lo + hi + 1) \div 2
         IN  IF mid * mid * mid * mid * mid <= n THEN Iroot5In(n, mid, hi)
             ELSE Iroot5In(n, lo, mid - 1)

Iroot5(n) == Iroot5In(n, 0, 73)

\* diminishing(x, 0.7) = x ** 0.7 on thousandths, as sqrt(x) * x ** 0.2 with the
\* fifth root kept to one decimal
diminishing(x) == (Isqrt(x * 1000) * Iroot5(x * 100)) \div 10

\* the economy of one settlement after its links' gains and losses (lines 655-679)
TradedEconomy(econ, trade_gain, total_risk) ==
    LET price == econ.price_multiplier
        \* mitigation = sqrt(max(1.0, power_projection)), times 10
        mitigation == Isqrt(100 * Max(100, econ.power_projection))
        wealth == econ.wealth + (4 * trade_gain) \div (10 * price)
                    - (2 * total_risk) \div mitigation
        supplies == econ.supplies + (2 * trade_gain) \div (10 * price)
                    - (15 * total_risk) \div (10 * mitigation)
    IN  [econ EXCEPT !.wealth = Max(0, wealth), !.supplies = Max(0, supplies)]

\* the economy of the settlement on tile t after the loop over trade_links
EconomyAfterTrade(econ, links) ==
    TradedEconomy(econ,
                  diminishing(SumSeq([i \in 1..Len(links) |-> links[i].value])),
                  SumSeq([i \in 1..Len(links) |-> links[i].risk]))

\* settlement_by_id (lines 637-641): of the tiles GetActiveTiles lists in the
\* order ts, the last one carrying each id
settlement_by_id(w, ts) ==
    [sid \in {Val(w[ts[i]].economy).id : i \in DOMAIN ts} |->
        ts[CHOOSE i \in DOMAIN ts :
              /\ Val(w[ts[i]].economy).id = sid
              /\ \A j \in DOMAIN ts : Val(w[ts[j]].economy).id = sid => j <= i]]

\* ApplyTradeEffects(world) with the slot holding trade_links and the economy
\* tiles listed in the order ts: the tile settlement_by_id names for each key
\* of trade_links gets its gains and losses
ApplyTradeEffects(d, w, trade_links, ts) ==
    [t \in Tiles(d) |->
        IF /\ w[t].economy # None
           /\ Val(w[t].economy).id \in DOMAIN trade_links
           /\ Val(w[t].economy).id \in DOMAIN settlement_by_id(w, ts)
           /\ settlement_by_id(w, ts)[Val(w[t].economy).id] = t
        THEN [w[t] EXCEPT !.economy =
                 Some(EconomyAfterTrade(Val(w[t].economy),
                                        trade_links[Val(w[t].economy).id]))]
        ELSE w[t]]

\* a refresh that adds the new evaluation to the stored risk
RefreshedLinksAdding(w, trade_links) ==
    [sid \in {s \in DOMAIN trade_links : trade_links[s] # <<>>} |->
        [i \in 1..Len(trade_links[sid]) |->
            [trade_links[sid][i] EXCEPT !.risk = @ + EvaluateRouteRisk(w, trade_links[sid][i].path)]]]

\* a refresh that turns every path round as it re-evaluates it
RefreshedLinksReversing(w, trade_links) ==
    [sid \in {s \in DOMAIN trade_links : trade_links[s] # <<>>} |->
        [i \in 1..Len(trade_links[sid]) |->
            [trade_links[sid][i] EXCEPT !.risk = EvaluateRouteRisk(w, trade_links[sid][i].path),
                                        !.path = Reverse(@)]]]

\* the links of UpdateTradeRouteRisks: every link's risk re-evaluated on its path
RefreshedLinks(w, trade_links) ==
    [sid \in {s \in DOMAIN trade_links : trade_links[s] # <<>>} |->
        [i \in 1..Len(trade_links[sid]) |->
            [trade_links[sid][i] EXCEPT !.risk = EvaluateRouteRisk(w, trade_links[sid][i].path)]]]

\* a stored graph: the dict object (obj numbers the GenerateTradeRoutes call
\* that made its link dicts) and what it holds
GraphObject(n, links) == [obj |-> n, links |-> links]

\* whether some stored risk differs from what the tiles of the path give now
RisksStale(w, trade_links) == trade_links # RefreshedLinks(w, trade_links)

-----------------------------------------------------------------------------
(* The program: Main builds and stores the graph, then runs the clock *)

\* the interval Main registers the ecosystem callbacks with
EcoInterval == 48

\* the weather states UpdateWeather is drawn to leave
WeatherStates == {"clear_weather", "storm"}
\* the day's change SimulateSettlementEconomy is drawn to make to supplies and wealth
EconDeltas == {0, -EconStep}

\* worlds of plain tiles with settlement 1 on the first tile and settlement 2
\* on the last one
TradeWorlds(d) ==
    { [t \in Tiles(d) |->
          IF t = <<0, 0>> THEN SettledTile(PlainTile, t, 1, k1)
          ELSE IF t = <<d[1] - 1, d[2] - 1>> THEN SettledTile(PlainTile, t, 2, k2)
          ELSE PlainTile] : k1 \in SettlementKinds, k2 \in SettlementKinds }

Init ==
    /\ dim = <<GenW, GenH>>
    /\ world \in TradeWorlds(dim)
    /\ widx = rebuild(world)
    /\ meta = EmptyMeta
    /\ reader = None
    /\ clock = ClockStart
    /\ subscribers = NoSubscribers
    /\ pc = "GenerateTradeRoutes"
    /\ err = "none"
    /\ steps = 0
    /\ new_trade_links = None
    /\ route = None
    /\ hist = NoHist

\* a call of GenerateTradeRoutes whose result is kept in a local; an exception
\* ends the program
Generate(then) ==
    \E ts \in Orders(with_system(widx, "economy")) :
       \E g \in {GenerateTradeRoutes(dim, world, ts)} :
           /\ world' = g.world
           /\ widx' = TagSettlementsIndex(widx, g)
           /\ err' = g.err
           /\ new_trade_links' = IF g.err = "none" THEN Some(g.ret) ELSE None
           /\ pc' = IF g.err = "none" THEN then ELSE "crashed"
           /\ hist' = [hist EXCEPT !.made = @ + 1,
                                   !.gen = Some([n |-> g.n, profiles |-> g.profiles,
                                                 edges |-> g.edges, accepted |-> g.accepted,
                                                 mst_links |-> g.mst_links])]

\* meta["trade_links"] = the local
Store == meta' = [meta EXCEPT !.trade_links = Some(GraphObject(hist.made, Val(new_trade_links)))]

\* main.py line 175
MainGenerate ==
    /\ pc = "GenerateTradeRoutes"
    /\ Generate("store")
    /\ UNCHANGED <<dim, subscribers, meta, reader, clock, steps, route>>

\* the registrations of main.py lines 187-200
MainSubscribers ==
    [local |-> <<"UpdateAllEntities">>,
     global |-> <<"SimulateSettlementEconomy", "UpdateWeather", "DailyTradeTick",
                  "DailySettlementSnapshot">>,
     interval |-> (EcoInterval :> <<"SimulateEco", "CheckAndTriggerEcoEvents">>)]

\* main.py lines 177-200: the graph is stored, the TimeSystem and the
\* EventManager are made and the callbacks registered
MainStore ==
    /\ pc = "store"
    /\ Store
    /\ subscribers' = MainSubscribers
    /\ pc' = "tick"
    /\ UNCHANGED <<dim, widx, world, reader, clock, err, steps, new_trade_links, route, hist>>

\* WorldClock.advance_local_tick
advance_local_tick(c) ==
    IF c.local_tick + 1 >= 24
    THEN [global_tick |-> c.global_tick + 1, local_tick |-> 0]
    ELSE [c EXCEPT !.local_tick = @ + 1]

\* where tick() goes after the hourly callbacks, after the interval callbacks,
\* and after its last callback (run() then ticks again or returns)
AfterTick == IF steps >= RunHours THEN "done" ELSE "tick"
AfterIntervals == IF clock.local_tick = 0 THEN "SimulateSettlementEconomy" ELSE AfterTick
AfterLocal ==
    IF \E n \in DOMAIN subscribers.interval : clock.local_tick % n = 0
    THEN "SimulateEco" ELSE AfterIntervals

\* TimeSystem.tick: the clock advances, then the callbacks run in turn
Tick ==
    /\ pc = "tick"
    /\ steps < RunHours
    /\ clock' = advance_local_tick(clock)
    /\ steps' = steps + 1
    /\ pc' = "UpdateAllEntities"
    /\ UNCHANGED <<dim, subscribers, widx, world, meta, reader, err, new_trade_links, route, hist>>

\* a callback that leaves the fields modelled here alone
Callback(name, then) ==
    /\ pc = name
    /\ pc' = then
    /\ UNCHANGED <<dim, subscribers, widx, world, meta, reader, clock, err, steps, new_trade_links, route, hist>>

\* hourly: the entities' own update
UpdateAllEntities == Callback("UpdateAllEntities", AfterLocal)
\* interval 48: the ecosystem passes; they visit tiles with an eco system, which
\* the drawn worlds do not have
SimulateEco == Callback("SimulateEco", "CheckAndTriggerEcoEvents")
CheckAndTriggerEcoEvents == Callback("CheckAndTriggerEcoEvents", AfterIntervals)

\* daily: supplies and wealth of every settlement move and stay non-negative
SimulateSettlementEconomy ==
    /\ pc = "SimulateSettlementEconomy"
    /\ \E dlt \in EconDeltas :
          world' = [t \in Tiles(dim) |->
                       IF world[t].economy = None THEN world[t]
                       ELSE [world[t] EXCEPT !.economy =
                               Some([Val(@) EXCEPT !.supplies = Max(0, @ + dlt),
                                                   !.wealth = Max(0, @ + dlt)])]]
    /\ pc' = "UpdateWeather"
    /\ UNCHANGED <<dim, subscribers, widx, meta, reader, clock, err, steps, new_trade_links, route, hist>>

\* the tile with its weather state replaced, and the state's tag with it
WithWeather(tile, st) ==
    [tile EXCEPT !.weather = Some(st),
                 !.tags = (@ \ {IF tile.weather = None THEN "clear_weather"
                                ELSE Val(tile.weather)}) \cup {st}]

\* daily: every tile's weather state is set anew
UpdateWeather ==
    /\ pc = "UpdateWeather"
    /\ \E st \in WeatherStates : world' = [t \in Tiles(dim) |-> WithWeather(world[t], st)]
    /\ pc' = "DailyTradeTick"
    /\ UNCHANGED <<dim, subscribers, widx, meta, reader, clock, err, steps, new_trade_links, route, hist>>

\* a call of ApplyTradeEffects in tick number now: meta["trade_links"] raises
\* KeyError while the key is absent
Apply(now, then) ==
    IF meta.trade_links = None
    THEN /\ err' = "KeyError"
         /\ pc' = "crashed"
         /\ UNCHANGED <<world, hist>>
    ELSE /\ \E ts \in Orders(with_system(widx, "economy")) :
                world' = ApplyTradeEffects(dim, world, Val(meta.trade_links).links, ts)
         /\ hist' = [hist EXCEPT !.applied_tick = now,
                                 !.stale = RisksStale(world, Val(meta.trade_links).links)]
         /\ pc' = then
         /\ UNCHANGED err

\* daily: DailyTradeTick calls ApplyTradeEffects
DailyTradeTick ==
    /\ pc = "DailyTradeTick"
    /\ Apply(steps, "DailySettlementSnapshot")
    /\ UNCHANGED <<dim, subscribers, widx, meta, reader, clock, steps, new_trade_links, route>>

\* daily: the snapshot reads the settlements
DailySettlementSnapshot == Callback("DailySettlementSnapshot", AfterTick)

Next ==
    \/ MainGenerate
    \/ MainStore
    \/ Tick
    \/ UpdateAllEntities
    \/ SimulateEco
    \/ CheckAndTriggerEcoEvents
    \/ SimulateSettlementEconomy
    \/ UpdateWeather
    \/ DailyTradeTick
    \/ DailySettlementSnapshot

Spec == Init /\ [][Next]_vars

-----------------------------------------------------------------------------
(* The entry points called in any order, the slot absent at first *)

InitApi ==
    /\ dim = <<GenW, GenH>>
    /\ world \in TradeWorlds(dim)
    /\ widx = rebuild(world)
    /\ meta = EmptyMeta
    /\ reader = None
    /\ clock = ClockStart
    /\ subscribers = NoSubscribers
    /\ pc = "idle"
    /\ err = "none"
    /\ steps = 0
    /\ new_trade_links = None
    /\ route = None
    /\ hist = NoHist

\* a caller is free to make its next call
Idle == pc = "idle" /\ steps < MaxCalls

\* a generation that builds into the stored dict: the slot is emptied first
UpdateTradeNetworkInPlace ==
    /\ Idle
    /\ Generate("UpdateTradeNetwork.store")
    /\ steps' = steps + 1
    /\ meta' = [meta EXCEPT !.trade_links = Some(GraphObject(hist.made + 1, NoGraph))]
    /\ UNCHANGED <<dim, subscribers, reader, clock, route>>

\* UpdateTradeNetwork, up to the return of GenerateTradeRoutes (line 690)
UpdateTradeNetworkGenerate ==
    /\ Idle
    /\ Generate("UpdateTradeNetwork.store")
    /\ steps' = steps + 1
    /\ UNCHANGED <<dim, subscribers, meta, reader, clock, route>>

\* UpdateTradeNetwork, the assignment to the slot (lines 693-694)
UpdateTradeNetworkStore ==
    /\ pc = "UpdateTradeNetwork.store"
    /\ Store
    /\ hist' = [hist EXCEPT !.regen = @ + 1]
    /\ pc' = "idle"
    /\ UNCHANGED <<dim, subscribers, widx, world, reader, clock, err, steps, new_trade_links, route>>

\* UpdateTradeRouteRisks(world): nothing happens while the slot is absent or
\* holds an empty graph; otherwise every link dict gets its risk anew, in place,
\* and a new dict of the same link dicts is stored
CallUpdateTradeRouteRisks ==
    /\ Idle
    /\ steps' = steps + 1
    /\ IF meta.trade_links = None \/ DOMAIN Val(meta.trade_links).links = {}
       THEN UNCHANGED <<meta, reader, hist>>
       ELSE \E g \in {GraphObject(Val(meta.trade_links).obj,
                                  RefreshedLinks(world, Val(meta.trade_links).links))} :
               /\ meta' = [meta EXCEPT !.trade_links = Some(g)]
               /\ reader' = IF reader # None /\ Val(reader).obj = g.obj
                            THEN Some(g) ELSE reader
               /\ hist' = [hist EXCEPT !.refreshed_tick = steps,
                                       !.refreshed_before = hist.refreshed_tick]
    /\ UNCHANGED <<dim, subscribers, widx, world, clock, pc, err, new_trade_links, route>>

\* ApplyTradeEffects(world)
CallApplyTradeEffects ==
    /\ Idle
    /\ steps' = steps + 1
    /\ Apply(steps, "idle")
    /\ UNCHANGED <<dim, subscribers, widx, meta, reader, clock, new_trade_links, route>>

\* a reader takes the graph the slot holds (a reference to the stored dict)
ReaderTakes ==
    /\ pc \in {"idle", "UpdateTradeNetwork.store"}
    /\ meta.trade_links # None
    /\ reader # meta.trade_links
    /\ reader' = meta.trade_links
    /\ UNCHANGED <<dim, subscribers, widx, world, meta, clock, pc, err, steps, new_trade_links, route, hist>>

\* between two calls the weather of the tiles turns
WeatherTurns ==
    /\ Idle
    /\ steps' = steps + 1
    /\ \E st \in WeatherStates :
          /\ world' = [t \in Tiles(dim) |-> WithWeather(world[t], st)]
          /\ world' # world
    /\ UNCHANGED <<dim, subscribers, widx, meta, reader, clock, pc, err, new_trade_links, route, hist>>

NextApi ==
    \/ UpdateTradeNetworkGenerate
    \/ UpdateTradeNetworkStore
    \/ CallUpdateTradeRouteRisks
    \/ CallApplyTradeEffects
    \/ ReaderTakes
    \/ WeatherTurns

SpecApi == InitApi /\ [][NextApi]_vars

-----------------------------------------------------------------------------
(* ApplyTradeEffects on stored links of any value and risk *)

\* what is drawn for the two settlements and their stored links
EffectDraws ==
    [ids : {<<1, 2>>, <<1, 1>>},
     wealth : {0, 1, 10000},
     supplies : {0, 200, 10000},
     price_multiplier : {50, 100, 200},
     power_projection : {0, 1800},
     value : {0, 50000},
     risk : {0, 240, 5000},
     raid : BOOLEAN]

\* two settlements on neighbouring tiles with the drawn economy
EffectWorld(d, c) ==
    [t \in Tiles(d) |->
        IF t \in {<<0, 0>>, <<1, 0>>}
        THEN [PlainTile EXCEPT
                 !.terrain = "settlement",
                 !.economy = Some([Economy(c.ids[t[1] + 1], << >>) EXCEPT
                                      !.wealth = c.wealth,
                                      !.supplies = c.supplies,
                                      !.price_multiplier = c.price_multiplier,
                                      !.power_projection = c.power_projection]),
                 !.active_events = IF c.raid THEN ("common_raid" :> RaidDuration)
                                   ELSE PlainTile.active_events]
        ELSE PlainTile]

\* the stored graph: one link each way between the two tiles, filed under the
\* settlements' ids
EffectLinks(c) ==
    LET link(p) == [partner |-> p, value |-> c.value, risk |-> c.risk,
                    path |-> << <<0, 0>>, <<1, 0>> >>]
    IN  IF c.ids[1] = c.ids[2]
        THEN (c.ids[1] :> << link(c.ids[1]), link(c.ids[1]) >>)
        ELSE (c.ids[1] :> << link(c.ids[2]) >>) @@ (c.ids[2] :> << link(c.ids[1]) >>)

InitEffects ==
    /\ dim = <<GenW, GenH>>
    /\ \E c \in EffectDraws :
          /\ world = EffectWorld(dim, c)
          /\ meta = [trade_links |-> Some(GraphObject(1, EffectLinks(c)))]
    /\ widx = rebuild(world)
    /\ reader = None
    /\ clock = ClockStart
    /\ subscribers = NoSubscribers
    /\ pc = "idle"
    /\ err = "none"
    /\ steps = 0
    /\ new_trade_links = None
    /\ route = None
    /\ hist = [NoHist EXCEPT !.made = 1]

\* TriggerTileEvents(world) between two calls, while a raid is active
TriggerTileEventsBetweenCalls ==
    /\ Idle
    /\ steps' = steps + 1
    /\ \E t \in EconomyTiles(dim, world) : DOMAIN world[t].active_events # {}
    /\ world' = [t \in Tiles(dim) |->
                    IF world[t].economy # None /\ DOMAIN world[t].active_events # {}
                    THEN TickedTile(world[t]) ELSE world[t]]
    /\ UNCHANGED <<dim, subscribers, widx, meta, reader, clock, pc, err, new_trade_links, route, hist>>

NextEffects ==
    \/ CallApplyTradeEffects
    \/ TriggerTileEventsBetweenCalls

SpecEffects == InitEffects /\ [][NextEffects]_vars


-----------------------------------------------------------------------------
(* TimeSystem with one interval callback: subscribe_every or                 *)
(* register_interval with any positive interval, then tick after tick        *)

MaxInterval == 48      \* intervals 1..48 are registered (main.py registers 48)
ClockTicks == 100      \* ticks run after the registration
StartHours == {0, 6, 23}

\* what is recorded of the callback: how often it was invoked, the tick of its
\* last invocation (0: the registration) and the ticks since the one before
NoCalls == [calls |-> 0, last |-> 0, gap |-> 0]

InitClock ==
    /\ dim = <<GenW, GenH>>
    /\ world = [t \in Tiles(dim) |-> PlainTile]
    /\ widx = rebuild(world)
    /\ meta = EmptyMeta
    /\ reader = None
    /\ \E h \in StartHours : clock = [global_tick |-> 0, local_tick |-> h]
    /\ subscribers = NoSubscribers
    /\ pc = "setup"
    /\ err = "none"
    /\ steps = 0
    /\ new_trade_links = None
    /\ route = None
    /\ hist = NoCalls

\* time_system.subscribe_every(N, cb)
subscribe_every ==
    /\ pc = "setup"
    /\ \E n \in 1..MaxInterval :
          subscribers' = [subscribers EXCEPT !.interval = (n :> <<"cb">>)]
    /\ pc' = "run"
    /\ UNCHANGED <<dim, world, widx, meta, reader, clock, err, steps, new_trade_links, route, hist>>

\* event_manager.register_interval(N, cb): the wrapped callback is subscribed
register_interval ==
    /\ pc = "setup"
    /\ \E n \in 1..MaxInterval :
          subscribers' = [subscribers EXCEPT !.interval = (n :> <<"wrapped">>)]
    /\ pc' = "run"
    /\ UNCHANGED <<dim, world, widx, meta, reader, clock, err, steps, new_trade_links, route, hist>>

\* TimeSystem.tick(): the clock advances, and the callbacks of every integer
\* key that divides the hour of day are invoked
tick ==
    /\ pc = "run"
    /\ steps < ClockTicks
    /\ clock' = advance_local_tick(clock)
    /\ steps' = steps + 1
    /\ hist' = IF \E n \in DOMAIN subscribers.interval : clock'.local_tick % n = 0
               THEN [calls |-> hist.calls + 1, last |-> steps', gap |-> steps' - hist.last]
               ELSE hist
    /\ UNCHANGED <<dim, subscribers, world, widx, meta, reader, pc, err, new_trade_links, route>>

NextClock ==
    \/ subscribe_every
    \/ register_interval
    \/ tick

SpecClock == InitClock /\ [][NextClock]_vars


-----------------------------------------------------------------------------
(* Properties of the synthesizer *)

\* the locals of the finished call, and the graph it returned
Gen == Val(hist.gen)
Generated == pc = "returned" /\ err = "none" /\ hist.gen # None
Returned == Val(new_trade_links)
GenSids == DOMAIN Gen.profiles.of
AllPairsRouted == 2 * Len(Gen.edges) = Gen.n * (Gen.n - 1)

\* the settlements reached from S by following partner references in graph g
RECURSIVE ReachFrom(_, _)
ReachFrom(g, S) ==
    LET T == S \cup UNION { {g[s][i].partner : i \in 1..Len(g[s])} : s \in S \cap DOMAIN g }
    IN  IF T = S THEN S ELSE ReachFrom(g, T)

\* the settlements joined to S by the edges (taken in both directions) of E
RECURSIVE JoinedTo(_, _)
JoinedTo(E, S) ==
    LET T == S \cup {e.sidB : e \in {x \in E : x.sidA \in S}}
               \cup {e.sidA : e \in {x \in E : x.sidB \in S}}
    IN  IF T = S THEN S ELSE JoinedTo(E, T)

\* C1: after a call on n >= 2 settlements whose pairs are all routed, every
\* settlement reaches every other one by following the partner references of
\* the backbone links, and the returned graph holds those links.
C1_BackboneConnected ==
    (Generated /\ Gen.n >= 2 /\ AllPairsRouted)
        => \A s \in GenSids :
              /\ ReachFrom(Gen.mst_links, {s}) = GenSids
              /\ s \in DOMAIN Returned
              /\ SubSeq(Returned[s], 1, Len(LinksOf(Gen.mst_links, s))) = LinksOf(Gen.mst_links, s)

C1_Witness ==
    /\ Generated /\ Gen.n >= 3 /\ AllPairsRouted
    /\ \E s \in GenSids : Len(LinksOf(Gen.mst_links, s)) = 1

\* C2: every link stored in the list of settlement s has a path that starts
\* at the tile of s and ends at the tile of the link's partner.
C2_PathFromOwnerToPartner ==
    Generated
        => \A s \in DOMAIN Returned : \A i \in 1..Len(Returned[s]) :
              LET l == Returned[s][i]
              IN  /\ l.path[1] = Gen.profiles.of[s].tile
                  /\ l.path[Len(l.path)] = Gen.profiles.of[l.partner].tile

\* C3: for every accepted backbone edge A-B, the backbone list of A has a link
\* to B, that of B has a link to A, and the path of one is the reverse of the
\* path of the other.
C3_BackboneReversed ==
    Generated
        => \A k \in 1..Len(Gen.accepted) :
              LET e == Gen.accepted[k]
                  la == LinksOf(Gen.mst_links, e.sidA)
                  lb == LinksOf(Gen.mst_links, e.sidB)
              IN  \E i \in 1..Len(la), j \in 1..Len(lb) :
                     /\ la[i].partner = e.sidB
                     /\ lb[j].partner = e.sidA
                     /\ la[i].path = Reverse(lb[j].path)

\* the cost of a set of candidate edges given by their positions
EdgeCost(T) == SumOver([i \in T |-> Gen.edges[i].cost], T)
\* the sets of n-1 candidate edges that join all settlements
SpanningTrees ==
    {T \in SUBSET (1..Len(Gen.edges)) :
        /\ Cardinality(T) = Gen.n - 1
        /\ \A s \in GenSids : JoinedTo({Gen.edges[i] : i \in T}, {s}) = GenSids}
AcceptedCost == SumSeq([k \in 1..Len(Gen.accepted) |-> Gen.accepted[k].cost])

\* C9: the accepted backbone edges join all settlements whenever some set of
\* candidate edges does, and no spanning tree of the candidate edges has a
\* smaller sum of cached pair costs.
C9_BackboneMinimal ==
    (Generated /\ Gen.n >= 2)
        => /\ SpanningTrees # {}
              => \A s \in GenSids : JoinedTo(SeqToSet(Gen.accepted), {s}) = GenSids
           /\ \A T \in SpanningTrees : AcceptedCost <= EdgeCost(T)

C9_Witness ==
    /\ Generated /\ Gen.n >= 3
    /\ \E T \in SpanningTrees : AcceptedCost < EdgeCost(T)

\* C10: on n settlements whose pairs are all routed Kruskal accepts exactly
\* n-1 edges, and each accepted edge joins two settlements that the edges
\* accepted before it had not joined (so the accepted edges have no cycle).
C10_AcceptsTree ==
    (Generated /\ Gen.n >= 1 /\ AllPairsRouted)
        => /\ Len(Gen.accepted) = Gen.n - 1
           /\ \A k \in 1..Len(Gen.accepted) :
                 Gen.accepted[k].sidB
                    \notin JoinedTo(SeqToSet(SubSeq(Gen.accepted, 1, k - 1)),
                                    {Gen.accepted[k].sidA})

C10_Witness ==
    /\ Generated /\ Gen.n >= 3 /\ AllPairsRouted
    /\ Len(Gen.accepted) < Len(Gen.edges)

\* C11: no settlement's list in the returned graph holds two links with the
\* same partner and the identical path.
C11_NoDuplicateLinks ==
    Generated
        => \A s \in DOMAIN Returned : \A i, j \in 1..Len(Returned[s]) :
              (Returned[s][i].partner = Returned[s][j].partner
                 /\ Returned[s][i].path = Returned[s][j].path) => i = j

\* C12: every link of the returned graph has value >= 0 and risk >= 0,
\* whatever wealth and supplies the settlements have reached.
C12_LinksNonNegative ==
    Generated
        => \A s \in DOMAIN Returned : \A i \in 1..Len(Returned[s]) :
              Returned[s][i].value >= 0 /\ Returned[s][i].risk >= 0

\* C14: on a world with no settlement or one settlement GenerateTradeRoutes
\* raises nothing and returns an empty graph.
C14_FewSettlementsEmptyGraph ==
    (pc = "returned" /\ Cardinality(EconomyTiles(dim, world)) <= 1)
        => (err = "none" /\ new_trade_links = Some(NoGraph))

C14_Witness ==
    /\ pc = "returned"
    /\ Cardinality(EconomyTiles(dim, world)) = 1
    /\ Gen.n = 1
    /\ new_trade_links = Some(NoGraph)

\* C19: one profile is built for every tile the index reports as carrying an
\* economy: as many profiles as such tiles, and every such tile is the tile
\* of a profile, whatever ids the settlements were given
C19_OneProfilePerEconomyTile ==
    (pc = "returned" /\ hist.gen # None)
        => LET of == Val(hist.gen).profiles.of
           IN  /\ Cardinality(DOMAIN of) = Cardinality(with_system(widx, "economy"))
               /\ \A t \in with_system(widx, "economy") :
                     \E sid \in DOMAIN of : of[sid].tile = t

\* the commodities a settlement can hold or be asked for
Commodities == StockNames \cup DOMAIN DemandCoef

\* exports and imports of a profile are those of the economy given
ProfileMatches(prof, econ) ==
    LET subs == econ.sub_commodities
        have(r) == IF r \in DOMAIN subs THEN subs[r] ELSE 0
        demand(r) == econ.population * DemandCoef[r]
    IN  /\ \A k \in Commodities :
              /\ k \in DOMAIN prof.exports <=> (k \in DOMAIN subs /\ subs[k] > 1000)
              /\ k \in DOMAIN prof.exports => prof.exports[k] = subs[k]
        /\ \A r \in Commodities :
              /\ r \in DOMAIN prof.imports
                    <=> (r \in DOMAIN DemandCoef /\ 2 * have(r) < demand(r))
              /\ r \in DOMAIN prof.imports => prof.imports[r] = demand(r) - have(r)

\* C20: for every settlement the profile's exports are exactly the commodities
\* held in a quantity above 1.0, its imports exactly the commodities of the
\* demand table held below half of the per-capita demand, each with the
\* shortfall demand - have; and the call leaves every tile, the index and the
\* meta system as they were
C20_ProfileExportsImports ==
    [][CallCollectSettlementProfiles
          => /\ world' = world /\ widx' = widx /\ meta' = meta
             /\ \A t \in EconomyTiles(dim, world) :
                   LET econ == Val(world[t].economy)
                       of == Val(route').profiles.of
                   IN  /\ econ.id \in DOMAIN of
                       /\ of[econ.id].tile = t
                       /\ ProfileMatches(of[econ.id], econ)]_vars

\* a profile was built of a settlement that holds grain above 1.0 and below
\* half its demand (exported and imported at once), wine above 1.0 and iron
\* at exactly half its demand
C20_Witness ==
    /\ pc = "profiles"
    /\ route # None
    /\ LET p == Val(route).profiles.of[1]
       IN  /\ Val(world[<<0, 0>>].economy).sub_commodities
                 = [grain |-> 1001, iron |-> 200, wine |-> 1001]
           /\ Val(world[<<0, 0>>].economy).population = 200
           /\ DOMAIN p.exports = {"grain", "wine"}
           /\ p.imports["grain"] = 2999
           /\ "iron" \notin DOMAIN p.imports

\* the settlements eligible as partners of A: another settlement within
\* search_radius of A's tile whose complement value with A is above 0
ComplementValue(pA, pB) ==
    MatchValue(pA.exports, pB.imports) + MatchValue(pB.exports, pA.imports)

Eligible(of, sid, search_radius) ==
    {o \in DOMAIN of \ {sid} :
        /\ of[o].tile \in Window(dim, of[sid].tile, search_radius)
        /\ ComplementValue(of[sid], of[o]) > 0}

\* the score of partner o for settlement sid as [num, d2]: complement value
\* times affinity (1.0 + rv / 2, neutral without an entity on either side or
\* without a record), over distance and caution penalty
ScoreParts(of, sid, o) ==
    LET entityA == world[of[sid].tile].entity
        entityB == world[of[o].tile].entity
        rel == IF entityA # None /\ entityB # None /\ Val(entityA).relationship # None
               THEN Val(Val(entityA).relationship).table ELSE << >>
        rv == IF of[o].tile \in DOMAIN rel THEN rel[of[o].tile].rv ELSE 0
    IN  [num |-> ComplementValue(of[sid], of[o]) * (200 + rv),
         d2 |-> Dist2(of[sid].tile, of[o].tile)]

\* score(o1) >= score(o2) for settlement sid
ScoredAtLeast(r, sid, o1, o2) ==
    ScoreSgn(ScoreParts(r.of, sid, o1), ScoreParts(r.of, sid, o2),
             Max(4, 3 * r.search_radius), 50) >= 0

\* C21: a shortlist holds at most max_partners ids, never its own settlement,
\* only eligible settlements, in descending order of score, and no eligible
\* settlement left out scores higher than one that is listed
C21_ShortlistIsTopScored ==
    (pc = "done" /\ route # None /\ Val(route).partners # None)
        => LET r == Val(route)
               partners == Val(r.partners)
           IN  \A sid \in DOMAIN partners :
                 LET L == partners[sid]
                 IN  /\ Len(L) <= r.max_partners
                     /\ \A i \in 1..Len(L) :
                           L[i] # sid /\ L[i] \in Eligible(r.of, sid, r.search_radius)
                     /\ \A i, j \in 1..Len(L) : i < j => ScoredAtLeast(r, sid, L[i], L[j])
                     /\ \A o \in Eligible(r.of, sid, r.search_radius) \ SeqToSet(L) :
                           \A i \in 1..Len(L) : ScoredAtLeast(r, sid, L[i], o)

\* a shortlist was cut to one entry with two settlements eligible, and the one
\* kept is the farther of the two: the nearer one is remembered with valence -1
C21_Witness ==
    /\ pc = "done"
    /\ route # None
    /\ Val(route).partners # None
    /\ LET r == Val(route)
       IN  \E sid \in DOMAIN Val(r.partners) :
              LET L == Val(r.partners)[sid]
              IN  /\ r.max_partners = 1
                  /\ Len(L) = 1
                  /\ \E o \in Eligible(r.of, sid, r.search_radius) \ {L[1]} :
                        Dist2(r.of[sid].tile, r.of[o].tile)
                            < Dist2(r.of[sid].tile, r.of[L[1]].tile)

\* partners[sid] of the defaultdict FindTradePartners returns
ShortlistOf(partners, sid) == IF sid \in DOMAIN partners THEN partners[sid] ELSE << >>

\* C22: whether or not the settlements carry an AI entity or relationship
\* records, FindTradePartners raises nothing and gives every settlement the
\* shortlist of its eligible candidates, as many of them as max_partners allows
C22_NoDataRecovered ==
    (pc = "done" /\ route # None)
        => LET r == Val(route)
           IN  /\ err = "none"
               /\ r.partners # None
               /\ \A sid \in DOMAIN r.of :
                     Len(ShortlistOf(Val(r.partners), sid))
                         = Min(r.max_partners,
                               Cardinality(Eligible(r.of, sid, r.search_radius)))

\* the prosperity, deficit and hub tags a settlement's economy and links imply
ImpliedTags(econ, links) ==
    (IF econ.prosperity > 20000 THEN {"prosperous"} ELSE {})
    \cup (IF econ.prosperity < 4000 THEN {"struggling"} ELSE {})
    \cup (IF 2 * econ.supplies < 100 * econ.population THEN {"supplies_deficit"} ELSE {})
    \cup (IF Len(links) >= 3 THEN {"trade_hub"} ELSE {})

\* C23: after every call of GenerateTradeRoutes that returns, whatever the
\* number of settlements, each settlement tile carries exactly the prosperous,
\* struggling, supplies_deficit and trade_hub tags its economy and the new
\* graph imply; tags of an earlier pass that no longer qualify are gone
C23_TagsRecomputed ==
    (pc = "returned" /\ err = "none")
        => \A t \in EconomyTiles(dim, world) :
              world[t].tags \cap {"prosperous", "struggling", "supplies_deficit", "trade_hub"}
                  = ImpliedTags(Val(world[t].economy),
                                LinksOf(Val(new_trade_links), Val(world[t].economy).id))

\* the three risk signals of a settlement tile after a call, as 0 or 1: the
\* mean risk of its links above 2.0, a relationship record with valence and
\* sociality below -0.5, more than 5 wilderness tiles within radius 3
RiskSignals(t) ==
    LET links == LinksOf(Returned, Val(world[t].economy).id)
        total == SumSeq([i \in 1..Len(links) |-> links[i].risk])
        rel == IF world[t].entity # None /\ Val(world[t].entity).relationship # None
               THEN Val(Val(world[t].entity).relationship).table ELSE << >>
        wild == {n \in Window(dim, t, 3) \ {t} : world[n].terrain \notin EasyTerrain}
    IN  << IF Len(links) > 0 /\ total > 200 * Len(links) THEN 1 ELSE 0,
           IF \E o \in DOMAIN rel : rel[o].rv < -50 /\ rel[o].rs < -50 THEN 1 ELSE 0,
           IF Cardinality(wild) > 5 THEN 1 ELSE 0 >>

\* C24: after a call in which TagSettlements ran, a settlement carries
\* bandit_infested_settlement only if its prosperity is below 50 and at least
\* two of the three risk signals hold
C24_BanditNeedsTwoSignals ==
    (Generated /\ Gen.n >= 2)
        => \A t \in EconomyTiles(dim, world) :
              "bandit_infested_settlement" \in world[t].tags
                  => /\ Val(world[t].economy).prosperity < 5000
                     /\ SumSeq(RiskSignals(t)) >= 2

\* the tag was given on exactly two signals, link risk and wilderness, to a
\* settlement that did not carry it before
C24_Witness ==
    /\ Generated
    /\ Gen.n >= 2
    /\ "bandit_infested_settlement" \in world[<<0, 0>>].tags
    /\ "prosperous" \notin world[<<0, 0>>].tags
    /\ RiskSignals(<<0, 0>>) = <<1, 0, 1>>

Registered == CHOOSE n \in DOMAIN subscribers.interval : TRUE

C27_CostExcludesSource ==
    Generated
        => \A i \in DOMAIN Gen.edges :
              Gen.edges[i].cost = path_cost(world, Tail(Gen.edges[i].path))

\* two tiles that touch: the path between them is the one step
Adjacent(a, b) == a # b /\ Dist2(a, b) <= 2

-----------------------------------------------------------------------------
(* Properties of the running program and of the entry points *)

\* the days between two regenerations (UpdateTradeNetwork's docstring)
RegenDays == 7

\* C5: whenever ApplyTradeEffects has run in a tick, UpdateTradeRouteRisks ran
\* earlier in that same tick, and no risk the effects read differed from what
\* the tiles of the link's path gave at that moment.
C5_RisksRefreshedBeforeEffects ==
    hist.applied_tick # -1
        => (hist.refreshed_tick = hist.applied_tick /\ ~hist.stale)

\* C6: a call of ApplyTradeEffects or UpdateTradeRouteRisks made while the
\* trade_links slot is absent raises nothing and changes neither the world
\* nor the meta storage.
C6_AbsentSlotIsNoOp ==
    [][((CallApplyTradeEffects \/ CallUpdateTradeRouteRisks) /\ meta.trade_links = None)
          => (err' = "none" /\ world' = world /\ meta' = meta)]_vars

\* C7: a step of GenerateTradeRoutes inside UpdateTradeNetwork leaves the
\* slot and what a reader holds as they were; the one assignment that follows
\* puts the whole returned graph (every backbone list included) in the slot and
\* leaves the graph a reader holds as it was; and the slot changes in no other
\* step than that assignment and the risk refresh.
C7_GraphSwappedWhole ==
    [][/\ UpdateTradeNetworkGenerate => (meta' = meta /\ reader' = reader)
       /\ UpdateTradeNetworkStore
            => /\ reader' = reader
               /\ meta'.trade_links # None
               /\ Val(meta'.trade_links).links = Val(new_trade_links)
               /\ \A s \in DOMAIN Gen.mst_links :
                     SubSeq(LinksOf(Val(meta'.trade_links).links, s), 1,
                            Len(Gen.mst_links[s])) = Gen.mst_links[s]
       /\ meta' # meta => (UpdateTradeNetworkStore \/ CallUpdateTradeRouteRisks)]_vars

C7_Witness ==
    /\ pc = "idle" /\ hist.regen >= 2
    /\ reader # None /\ meta.trade_links # None
    /\ Val(reader).obj # Val(meta.trade_links).obj
    /\ Val(reader).links # Val(meta.trade_links).links
    /\ DOMAIN Val(reader).links # {}

\* C8: once the clock has passed a multiple of 7 days, UpdateTradeNetwork has
\* run and replaced the stored graph once for each 7 days passed.
C8_RegeneratedEverySevenDays ==
    (pc \in {"tick", "done"} /\ clock.global_tick >= RegenDays)
        => hist.regen >= clock.global_tick \div RegenDays

\* C15: a risk refresh changes no tile, and a refresh that follows a refresh
\* directly (the world unchanged in between) leaves every link as it was.
C15_RefreshIdempotent ==
    [][CallUpdateTradeRouteRisks
          => /\ world' = world
             /\ (hist.refreshed_tick >= 0 /\ hist.refreshed_tick = steps - 1)
                    => meta' = meta]_vars

C15_Witness ==
    /\ pc = "idle"
    /\ meta.trade_links # None
    /\ hist.refreshed_tick = steps - 1
    /\ hist.refreshed_before = steps - 2
    /\ hist.refreshed_before >= 0
    /\ \E s \in DOMAIN Val(meta.trade_links).links :
          \E i \in 1..Len(Val(meta.trade_links).links[s]) :
              Val(meta.trade_links).links[s][i].risk > 0

\* the settlements that have links in a graph
Linked(links) == {s \in DOMAIN links : links[s] # << >>}

\* C29: a risk refresh changes nothing but the risk of the links: the
\* settlements with links, the number and order of each one's links and every
\* link's partner, value and path stay, and so does every tile
C29_RefreshChangesRiskOnly ==
    [][(CallUpdateTradeRouteRisks /\ meta.trade_links # None)
          => /\ world' = world
             /\ widx' = widx
             /\ meta'.trade_links # None
             /\ LET old == Val(meta.trade_links).links
                    new == Val(meta'.trade_links).links
                IN  /\ Linked(new) = Linked(old)
                    /\ \A s \in Linked(old) :
                          /\ Len(new[s]) = Len(old[s])
                          /\ \A i \in 1..Len(old[s]) :
                                /\ new[s][i].partner = old[s][i].partner
                                /\ new[s][i].value = old[s][i].value
                                /\ new[s][i].path = old[s][i].path]_vars

\* the first refresh of a graph has just given a link a risk above zero
C29_Witness ==
    /\ pc = "idle"
    /\ meta.trade_links # None
    /\ hist.refreshed_tick = steps - 1
    /\ hist.refreshed_before = -1
    /\ \E s \in Linked(Val(meta.trade_links).links) :
          /\ Len(Val(meta.trade_links).links[s]) >= 2
          /\ Val(meta.trade_links).links[s][1].risk > 0

=============================================================================
